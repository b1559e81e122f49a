--------------------------- MODULE MCUsbEndpoint ---------------------------
(* Model checking of UsbPipe: the endpoints of the HID, CDC, printer,   *)
(* vendor and mass storage classes, the configurations that none uses, and   *)
(* the pipes of the host, as its mass storage class has them and without DMA. *)
EXTENDS UsbPipe

Conf(class, dir, type, dma, zlp) ==
  [class |-> class, dir |-> dir, type |-> type, dma |-> dma, zlp |-> zlp]

MCConfigs ==
  {Conf("hid", "tx", "interrupt", TRUE, FALSE), Conf("hid", "rx", "interrupt", FALSE, FALSE),
   Conf("cdc", "tx", "interrupt", TRUE, TRUE), Conf("cdc", "tx", "bulk", TRUE, TRUE),
   Conf("cdc", "rx", "bulk", TRUE, TRUE)}
  \union {Conf(class, dir, "bulk", TRUE, FALSE) : class \in {"printer", "vendor", "msc"},
                                                  dir \in {"tx", "rx"}}
  \union {Conf("vendor", dir, "interrupt", TRUE, FALSE) : dir \in {"tx", "rx"}}
  \union {Conf("none", "tx", type, FALSE, zlp) : type \in {"bulk", "interrupt"}, zlp \in BOOLEAN}
  \union {Conf("none", "rx", type, FALSE, FALSE) : type \in {"bulk", "interrupt"}}
  \union {Conf("pipe", dir, "bulk", dma, FALSE) : dir \in {"tx", "rx"}, dma \in BOOLEAN}
  \union {Conf("pipe", "tx", "bulk", FALSE, TRUE)}
===========================================================================
