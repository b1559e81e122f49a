-------------------------------- MODULE Hbi --------------------------------
(***************************************************************************)
(* The layers under the host bus interface to the Timberwolf audio chip:   *)
(* the HBI driver (drivers/hbi/hbi.c), the system service layer (ssl.c) and *)
(* the hardware abstraction over the SPI driver (hal_spi.c).  Each keeps    *)
(* its own record of what is initialised, open and in use; the calls below  *)
(* are functions from the state of the three layers to a new state and the  *)
(* status that the call returns.                                            *)
(***************************************************************************)
EXTENDS Naturals, FiniteSets, FiniteSetsExt

CONSTANTS
  MaxDevs,  \* VPROC_MAX_NUM_DEVS
  MaxInsts, \* HBI_MAX_INSTANCES
  PerDev,   \* HBI_MAX_INST_PER_DEV
  Slaves    \* the slave selects below MSS_SPI_MAX_NB_OF_SLAVES

ASSUME HbiAssumption ==
  /\ MaxDevs \in Nat \ {0} /\ MaxInsts \in Nat \ {0} /\ PerDev \in Nat \ {0}
  /\ IsFiniteSet(Slaves)

VARIABLE lay
  \* lay.hbi: up, bInitialized; inits, init_count; insts, num_instances;
  \*   opened, num_opened_dev; inst, the device of each user in use; dev, the
  \*   address, port and number of users of each device in use
  \* lay.ssl: up, initialised; port, the client of each port in use
  \* lay.hal: ready, the slaves whose bus is initialised; taken, those with a master

None == "none"

Nothing == [i \in {} |-> None]

LayersInit ==
  lay = [hbi |-> [up |-> FALSE, inits |-> 0, insts |-> 0, opened |-> 0,
                  inst |-> Nothing, dev |-> Nothing],
         ssl |-> [up |-> FALSE, port |-> Nothing],
         hal |-> [ready |-> {}, taken |-> {}]]

\* A table with an entry more, an entry less, and its first free slot.
With(t, i, v) == [j \in DOMAIN t \cup {i} |-> IF j = i THEN v ELSE t[j]]
Without(t, i) == [j \in DOMAIN t \ {i} |-> t[j]]
FreeSlot(t)   == CHOOSE i \in 0..Cardinality(DOMAIN t) :
                   i \notin DOMAIN t /\ \A j \in 0..i : j < i => j \in DOMAIN t

Result(l, status, handle) == [lay |-> l, status |-> status, handle |-> handle]
Fails(l, status) == Result(l, status, None)

---------------------------------------------------------------------------
(* The SPI ports: SSL_port_open over hal_open, SSL_port_close over hal_close. *)

HalOpen(l, slave) ==
  IF slave \notin Slaves THEN Fails(l, "ERROR")
  ELSE LET ready == [l EXCEPT !.hal.ready = @ \cup {slave}]
       IN IF slave \in l.hal.taken THEN Fails(ready, "ERROR")
          ELSE Result([ready EXCEPT !.hal.taken = @ \cup {slave}], "SUCCESS", slave)

PortOpen(l, slave) ==
  IF ~l.ssl.up THEN Fails(l, "NOT_INIT")
  ELSE IF Cardinality(DOMAIN l.ssl.port) >= MaxDevs THEN Fails(l, "RESOURCE_ERR")
  ELSE LET o == HalOpen(l, slave)
           i == FreeSlot(l.ssl.port)
       IN IF o.status # "SUCCESS" THEN Fails(o.lay, "INTERNAL_ERR")
          ELSE Result([o.lay EXCEPT !.ssl.port = With(@, i, o.handle)], "SUCCESS", i)

PortCloseLeavesMaster(l, port) == \* mutant: hal_close forgets the master
  IF ~l.ssl.up \/ port \notin DOMAIN l.ssl.port THEN Fails(l, "BAD_HANDLE")
  ELSE Result([l EXCEPT !.ssl.port = Without(@, port)], "SUCCESS", None)

PortClose(l, port) ==
  IF ~l.ssl.up \/ port \notin DOMAIN l.ssl.port THEN Fails(l, "BAD_HANDLE")
  ELSE Result([l EXCEPT !.hal.taken = @ \ {l.ssl.port[port]},
                        !.ssl.port = Without(@, port)], "SUCCESS", None)

\* SSL_port_rw and SSL_port_write: the SPI transfer cannot fail.
PortWorks(l, port) == l.ssl.up /\ port \in DOMAIN l.ssl.port

---------------------------------------------------------------------------
(* The HBI driver.                                                          *)

\* SSL_init empties its table and, in hal_init, the one of the hardware layer;
\* SSL_term keeps both.
SSL_init(l) ==
  IF l.ssl.up THEN l
  ELSE [l EXCEPT !.ssl = [up |-> TRUE, port |-> Nothing],
                 !.hal = [ready |-> {}, taken |-> {}]]

SSL_term(l) ==
  IF ~l.ssl.up THEN Result(l, "OK", None)
  ELSE IF DOMAIN l.ssl.port # {} THEN Fails(l, "FAILED")
  ELSE Result([l EXCEPT !.ssl.up = FALSE], "OK", None)

HBI_init(l) ==
  IF l.hbi.up THEN Result([l EXCEPT !.hbi.inits = @ + 1], "SUCCESS", None)
  ELSE Result([SSL_init(l) EXCEPT !.hbi = [up |-> TRUE, inits |-> 1, insts |-> 0,
                                           opened |-> 0, inst |-> Nothing, dev |-> Nothing]],
              "SUCCESS", None)

\* The devices in use that HBI_open takes for the one it is asked for.
OpenedAt(l, slave) == {d \in DOMAIN l.hbi.dev : l.hbi.dev[d].addr = slave}

\* One more user of device d.
NewUser(l, d) ==
  LET i == FreeSlot(l.hbi.inst)
  IN Result([l EXCEPT !.hbi.inst = With(@, i, d), !.hbi.insts = @ + 1,
                      !.hbi.dev[d].users = @ + 1], "SUCCESS", i)

\* A device of its own: the write of the endianness may fail, which HBI_open
\* leaves to the user.
NewDevice(l, slave) ==
  LET p == PortOpen(l, slave)
      d == FreeSlot(l.hbi.dev)
  IN IF p.status # "SUCCESS" THEN Fails(p.lay, "INTERNAL_ERR")
     ELSE NewUser([p.lay EXCEPT !.hbi.dev = With(@, d, [addr |-> slave, port |-> p.handle,
                                                        users |-> 0]),
                                !.hbi.opened = @ + 1], d)

HBI_open(l, slave) ==
  IF ~l.hbi.up THEN Fails(l, "NOT_INIT")
  ELSE IF l.hbi.insts >= MaxInsts THEN Fails(l, "RESOURCE_ERR")
  ELSE IF OpenedAt(l, slave) # {}
  THEN LET d == Min(OpenedAt(l, slave))
       IN IF l.hbi.dev[d].users >= PerDev THEN Fails(l, "RESOURCE_ERR") ELSE NewUser(l, d)
  ELSE IF l.hbi.opened >= MaxDevs THEN Fails(l, "RESOURCE_ERR") ELSE NewDevice(l, slave)

\* CHK_IF_INITED and CHK_VALID_HANDLE
BadHandle(l, h) == ~l.hbi.up \/ h \notin DOMAIN l.hbi.inst

\* A user less, and a device less.
LessUser(l, h)   == [l EXCEPT !.hbi.inst = Without(@, h), !.hbi.insts = @ - 1]
LessDevice(l, d) == [l EXCEPT !.hbi.dev = Without(@, d), !.hbi.opened = @ - 1]

HBI_close(l, h) ==
  IF BadHandle(l, h) THEN Fails(l, "BAD_HANDLE")
  ELSE LET d    == l.hbi.inst[h]
           last == l.hbi.dev[d].users = 1
           c    == PortClose(l, l.hbi.dev[d].port)
       IN IF ~last
          THEN Result([LessUser(l, h) EXCEPT !.hbi.dev[d].users = @ - 1], "SUCCESS", None)
          ELSE IF c.status # "SUCCESS" THEN Fails(l, "INTERNAL_ERR")
          ELSE Result(LessDevice(LessUser(c.lay, h), d), "SUCCESS", None)

HBI_term(l) ==
  IF ~l.hbi.up THEN Result(l, "SUCCESS", None)
  ELSE IF l.hbi.inits > 1 THEN Result([l EXCEPT !.hbi.inits = @ - 1], "SUCCESS", None)
  ELSE IF l.hbi.insts # 0 \/ l.hbi.opened # 0 THEN Fails(l, "INVALID_STATE")
  ELSE IF SSL_term(l).status # "OK" THEN Fails(SSL_term(l).lay, "ERROR")
  ELSE Result([SSL_term(l).lay EXCEPT !.hbi.up = FALSE, !.hbi.inits = @ - 1],
              "SUCCESS", None)

\* HBI_read, HBI_write and HBI_set_command reach the device of the handle.
Reaches(l, h) == ~BadHandle(l, h) /\ PortWorks(l, l.hbi.dev[l.hbi.inst[h]].port)

---------------------------------------------------------------------------
(* Property.                                                                *)

\* The three layers agree.  The counters of hbi.c count the entries in use; a
\* device has as many users as instances point to it, and at least one; a device
\* in use is a port in use of ssl.c, of its own, and that port is the slave of
\* the device with its master set in hal_spi.c, and there is no other; nothing
\* is open when the drivers are down, and they are up or down together.
LayersAgree ==
  LET h == lay.hbi  s == lay.ssl
      users(d) == {i \in DOMAIN h.inst : h.inst[i] = d}
  IN /\ h.insts = Cardinality(DOMAIN h.inst) /\ h.insts <= MaxInsts
     /\ h.opened = Cardinality(DOMAIN h.dev)
     /\ \A i \in DOMAIN h.inst : h.inst[i] \in DOMAIN h.dev
     /\ \A d \in DOMAIN h.dev :
          /\ h.dev[d].users = Cardinality(users(d)) /\ h.dev[d].users \in 1..PerDev
          /\ h.dev[d].port \in DOMAIN s.port /\ s.port[h.dev[d].port] = h.dev[d].addr
     /\ {h.dev[d].port : d \in DOMAIN h.dev} = DOMAIN s.port
     /\ Cardinality(DOMAIN s.port) = Cardinality(DOMAIN h.dev)
     /\ {s.port[p] : p \in DOMAIN s.port} = lay.hal.taken
     /\ h.up = s.up /\ (h.up <=> h.inits > 0) /\ (~h.up => h.insts = 0)
============================================================================
