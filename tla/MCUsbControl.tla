---------------------------- MODULE MCUsbControl ----------------------------
(* Model checking of UsbControl: the requests of an enumeration and more.   *)
EXTENDS UsbControlInv

Req(k, v, len, in) == [k |-> k, v |-> v, len |-> len, in |-> in]
Descr(v, len) == Req("descriptor", v, len, TRUE)

Build(class, user, bus) == [class |-> class, user |-> user, bus |-> bus]
MCBuilds ==
  {Build("hid", "hs", "hs"), Build("cdc", "fs", "fs"), Build("printer", "hs", "hs"),
   Build("vendor", "hs", "hs"), Build("msc", "hs", "fs")}

ChapterNine ==
  {Descr("qualifier", 10), Descr("other", 255), Descr("device", 64), Descr("device", 8), Descr("config", 255), Descr("config", 9),
   Descr("product", 255), Descr("missing", 255), Descr("report", 21),
   Req("address", 5, 0, FALSE), Req("setConfig", 1, 0, FALSE), Req("setConfig", 0, 0, FALSE),
   Req("getConfig", 0, 1, TRUE), Req("status", "device", 2, TRUE),
   Req("status", "rx", 2, TRUE), Req("setDescriptor", 0, 18, FALSE),
   Req("setInterface", 0, 0, FALSE), Req("getInterface", 0, 1, TRUE),
   Req("halt", "tx", 0, FALSE), Req("halt", "rx", 0, FALSE),
   Req("clearHalt", "tx", 0, FALSE), Req("clearHalt", "rx", 0, FALSE)}

\* Two packets, one full packet, none, and one that the application refuses.
ClassRequests ==
  {Req("class", "take", 100, FALSE), Req("class", "take", 64, TRUE),
   Req("class", "take", 0, FALSE), Req("class", "refuse", 7, FALSE),
   Req("class", "take", 1, TRUE)}

MCRequests == ChapterNine \union ClassRequests
LongRequests == MCRequests \union {Req("class", "take", 130, FALSE)}

\* The hypotheses of UsbControlProofs.
ASSUME RequestsAreRegular == Regular
ASSUME BuildsFit == AllFit
===========================================================================
