---------------------------- MODULE MCSerialDbg ----------------------------
(* Scripts of two chunks on a bursty line, with and without bytes that look *)
(* like a header, and console commands while the OpenMV thread prints.      *)
EXTENDS SerialDbg

Script == [op |-> "SCRIPT_EXEC", len |-> 3, magic |-> {}]
TxBuf == [op |-> "TX_BUF", len |-> 3, magic |-> {}]
TxLen == [op |-> "TX_BUF_LEN", len |-> 1, magic |-> {}]
ZeroScript == [op |-> "SCRIPT_EXEC", len |-> 3, magic |-> {2, 4, 5}]
Version == [op |-> "FW_VERSION", len |-> 1, magic |-> {}]
SensorId == [op |-> "SENSOR_ID", len |-> 1, magic |-> {}]

MCLoads ==
    {[commands |-> {Script, TxLen}, depth |-> 2, count |-> 2, prints |-> 0],
     [commands |-> {Script}, depth |-> 2, count |-> 3, prints |-> 0],
     [commands |-> {ZeroScript, TxLen}, depth |-> 2, count |-> 2, prints |-> 0],
     [commands |-> {TxBuf, Version, SensorId}, depth |-> 1, count |-> 2, prints |-> 4]}
=============================================================================
