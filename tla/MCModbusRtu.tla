---------------------------- MODULE MCModbusRtu ----------------------------
EXTENDS ModbusRtu, TLC

CONSTANTS u1, u2

Req(u, fc, len, val) ==
  [kind |-> "req", unit |-> u, fc |-> fc, at |-> 0, len |-> len, val |-> val]

Both == {u1, u2}
Polling ==
  {Req(u, "readInputRegisters", 1, None) : u \in Both}
    \cup {Req(u1, "writeSingleRegister", 1, v) : v \in {0, 1}}
    \cup {Req(u1, "writeMultipleRegisters", 1, 1), Req(u2, "readCoils", 2, None)}
    \cup {Req(u2, "writeFileRecord", 1, 0), Req(u1, "readFileRecord", 1, None)}
    \cup {Req(All, "writeSingleRegister", 1, 1)}
=============================================================================
