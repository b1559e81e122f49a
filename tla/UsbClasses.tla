----------------------------- MODULE UsbClasses -----------------------------
(***************************************************************************)
(* What the classes of the USB device tell the host of themselves and how  *)
(* they configure the endpoints: the configuration descriptors and the     *)
(* init callbacks of mss_usb_device_{hid,cdc,printer,vendor,msd}.c, and     *)
(* the checks of MSS_USBD_tx_ep_configure (mss_usb_device.c).              *)
(***************************************************************************)
EXTENDS Naturals, SequencesExt

AllClasses == {"hid", "cdc", "printer", "vendor", "msc"}
Speeds == {"fs", "hs"}

---------------------------------------------------------------------------
(* A configuration descriptor is the sequence of its parts, and its length. *)

Part(len) == [ep |-> FALSE, len |-> len]
Ep(num, dir, type, max) ==
  [ep |-> TRUE, len |-> 7, num |-> num, dir |-> dir, type |-> type, max |-> max]

LengthOf(parts) == FoldSeq(LAMBDA part, n : n + part.len, 0, parts)
Descriptor(parts) == [parts |-> parts, len |-> LengthOf(parts)]
Nothing == Descriptor(<<>>)

HidConf ==
  Descriptor(<<Part(9), Part(9), Part(9),
               Ep(1, "tx", "interrupt", 1024), Ep(1, "rx", "interrupt", 1024)>>)

CdcConf ==
  Descriptor(<<Part(9), Part(8), Part(9), Part(5), Part(5), Part(4), Part(5),
               Ep(2, "tx", "interrupt", 64), Part(9),
               Ep(1, "rx", "bulk", 64), Ep(1, "tx", "bulk", 64)>>)

PrinterConf ==
  Descriptor(<<Part(9), Part(9), Ep(1, "tx", "bulk", 512), Ep(1, "rx", "bulk", 512)>>)
PrinterFsConf ==
  Descriptor(<<Part(9), Part(9), Ep(1, "tx", "bulk", 512), Ep(1, "rx", "bulk", 512)>>)

VendorFsConf ==
  Descriptor(<<Part(9), Part(9), Ep(1, "tx", "interrupt", 64), Ep(1, "rx", "interrupt", 64),
               Ep(2, "tx", "bulk", 64), Ep(2, "rx", "bulk", 64)>>)
VendorHsConf ==
  Descriptor(<<Part(9), Part(9), Ep(1, "tx", "interrupt", 64), Ep(1, "rx", "interrupt", 64),
               Ep(2, "tx", "bulk", 512), Ep(2, "rx", "bulk", 512)>>)

MscFsConf ==
  Descriptor(<<Part(9), Part(9), Ep(1, "tx", "bulk", 64), Ep(1, "rx", "bulk", 64)>>)
MscHsConf ==
  Descriptor(<<Part(9), Part(9), Ep(1, "tx", "bulk", 512), Ep(1, "rx", "bulk", 512)>>)

EpsOf(conf) == {conf.parts[i] : i \in {i \in DOMAIN conf.parts : conf.parts[i].ep}}

\* wMaxPacketSize: two bytes, the fifth and the sixth of an endpoint descriptor.
MaxPktAt(conf, byte) ==
  LET Start(i) == LengthOf(SubSeq(conf.parts, 1, i - 1))
      i == CHOOSE i \in DOMAIN conf.parts : conf.parts[i].ep /\ Start(i) + 4 = byte
  IN conf.parts[i].max

\* The descriptor for the speed the bus runs at, and for the other one.
VendorGetDescriptor(user, speed) ==
  IF user = "hs" /\ speed = "hs" THEN VendorHsConf ELSE VendorFsConf
VendorOtherDescriptor(user, speed) ==
  CASE user = "fs"                   -> Nothing
    [] user = "hs" /\ speed = "hs"   -> VendorFsConf
    [] OTHER                         -> VendorHsConf

MscGetDescriptor(user, speed) ==
  IF user = "hs" /\ speed = "hs" THEN MscHsConf ELSE MscFsConf
MscOtherDescriptor(user, speed) ==
  CASE user = "fs"                   -> Nothing
    [] user = "hs" /\ speed = "hs"   -> MscFsConf
    [] OTHER                         -> MscHsConf

\* The HID and CDC classes have one descriptor, for both speeds; that of a printer
\* is asked of the application, which has the class's own to give.
HidGetDescriptor == HidConf
CdcGetDescriptor == CdcConf
PrinterGetDescriptor(speed) == IF speed = "hs" THEN PrinterConf ELSE PrinterFsConf

ConfDescriptor(class, user, speed) ==
  CASE class = "hid"     -> HidGetDescriptor
    [] class = "cdc"     -> CdcGetDescriptor
    [] class = "printer" -> PrinterGetDescriptor(speed)
    [] class = "vendor"  -> VendorGetDescriptor(user, speed)
    [] class = "msc"     -> MscGetDescriptor(user, speed)

OtherSpeedDescriptor(class, user, speed) ==
  CASE class = "hid"     -> HidGetDescriptor
    [] class = "cdc"     -> CdcGetDescriptor
    [] class = "printer" -> PrinterGetDescriptor(IF speed = "hs" THEN "fs" ELSE "hs")
    [] class = "vendor"  -> VendorOtherDescriptor(user, speed)
    [] class = "msc"     -> MscOtherDescriptor(user, speed)

---------------------------------------------------------------------------
(* Configuring endpoints.                                                  *)

HsMaxPkt(type) == IF type = "bulk" THEN 512 ELSE 1024
FsMaxPkt(type) == 64
StdMaxPkt(speed, type) == IF speed = "hs" THEN HsMaxPkt(type) ELSE FsMaxPkt(type)

\* The FIFO of an endpoint is the bytes [at, at + size) of the core's memory, of
\* which endpoint 0 has the first 64.
Config(num, dir, type, at, size, max, zlp) ==
  [num |-> num, dir |-> dir, type |-> type, at |-> at, size |-> size, max |-> max,
   zlp |-> zlp]

\* MSS_USBD_tx_ep_configure and MSS_USBD_rx_ep_configure: what does not pass the
\* test is left as it was, when ASSERT is compiled out.
TxAccepted(speed, c) == c.max <= StdMaxPkt(speed, c.type) /\ c.size >= c.max
RxAccepted(speed, c) == c.max <= StdMaxPkt(speed, c.type) /\ c.size >= c.max

\* The calls of the init callbacks, in order.
HidConfigs == {Config(1, "tx", "interrupt", 512, 1024, 1024, FALSE)}

CdcConfigs == {Config(2, "tx", "interrupt", 80, 64, 64, TRUE),
               Config(1, "tx", "bulk", 256, 64, 64, TRUE),
               Config(1, "rx", "bulk", 1024, 64, 64, TRUE)}

PrinterConfigs ==
  LET tx == MaxPktAt(PrinterConf, 22)
      rx == MaxPktAt(PrinterConf, 29)
  IN {Config(1, "rx", "bulk", 256, rx, rx, FALSE), Config(1, "tx", "bulk", 512, tx, tx, FALSE)}

\* Bytes 22 and 29 of the vendor class's descriptors are of its interrupt
\* endpoints: the bulk endpoints get their size.
VendorConfigs == [speed \in Speeds |->
  LET conf == IF speed = "fs" THEN VendorFsConf ELSE VendorHsConf
      tx == MaxPktAt(conf, 22)
      rx == MaxPktAt(conf, 29)
  IN {Config(1, "rx", "interrupt", 256, 64, 64, FALSE),
      Config(1, "tx", "interrupt", 320, 64, 64, FALSE),
      Config(2, "rx", "bulk", 384, rx, rx, FALSE),
      Config(2, "tx", "bulk", 896, tx, tx, FALSE)}]

MscConfigs == [speed \in Speeds |->
  LET conf == IF speed = "fs" THEN MscFsConf ELSE MscHsConf
      tx == MaxPktAt(conf, 22)
      rx == MaxPktAt(conf, 29)
  IN {Config(1, "rx", "bulk", 256, rx, rx, FALSE), Config(1, "tx", "bulk", 768, tx, tx, FALSE)}]

---------------------------------------------------------------------------
(* What is expected of a set of configured endpoints.                      *)

CepSize == 64

Apart(configs) ==
  /\ \A c \in configs : c.at >= CepSize
  /\ \A c, e \in configs : c # e => c.at + c.size <= e.at \/ e.at + e.size <= c.at

\* Each is an endpoint of the descriptor, of its type, and takes packets as large.
Described(c, conf) ==
  \E e \in EpsOf(conf) : e.num = c.num /\ e.dir = c.dir /\ e.type = c.type /\ e.max = c.max
AsDescribed(configs, conf) == \A c \in configs : Described(c, conf)
=============================================================================
