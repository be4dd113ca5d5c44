----------------------------- MODULE MCGEMHwDevice -----------------------------
(* A model-checking instance of the registers: two threads, lists that end before,
   at and after a multiple of the frequency, one with an unknown name.            *)
EXTENDS GEMHwDevice

I(r, v) == [reg |-> r, val |-> v]

MCCalls == {
  [op |-> "readReg",    list |-> <<I("a", 0)>>],
  [op |-> "writeReg",   list |-> <<I("b", 1)>>],
  [op |-> "writeReg",   list |-> <<I("p", 1)>>],
  [op |-> "writeReg",   list |-> <<I("w", 1)>>],
  [op |-> "readBlock",  list |-> <<I("a", 0), I("b", 0)>>],
  [op |-> "writeBlock", list |-> <<I("a", 2), I("b", 2)>>],
  [op |-> "readRegs",   list |-> <<I("a", 0), I("b", 0), I("a", 0)>>],
  [op |-> "readRegs",   list |-> <<I("b", 0), I("a", 0)>>],
  [op |-> "writeRegs",  list |-> <<I("a", 1), I("b", 2), I("a", 2)>>],
  [op |-> "writeRegs",  list |-> <<I("a", 2), I("nowhere", 1)>>],
  [op |-> "writeRegs",  list |-> <<>>] }
=============================================================================
