---------------------------- MODULE MCEnvmUsers ----------------------------
\* A service whose command is a pointer, one that locks eNVM-1, one that freezes the
\* fabric, one that programs from the SPI flash, by itself and behind the check of
\* the digest, and one that programs from pages; answers of six bytes are cut to
\* three.  And calls of the eNVM driver: a write that is not aligned and takes two
\* pages, one within a page, one that goes from the first controller into the second,
\* one that ends before the reserved pages of the smallest device and one that ends
\* in them; an unlocking of two pages, and a count in a protected area.
EXTENDS EnvmUsersInv

Cut(s) == [i \in DOMAIN s |-> [s[i] EXCEPT !.rsize = IF @ = 6 THEN 3 ELSE @]]

Serial == CHOOSE s \in DesignServices : s[1].op = "serial_number"
MCServices ==
  {Cut(s) : s \in {Serial, FlashFreeze, StartIsp("isp", 2)} \cup DeleteKey \cup InitiateIap}
MCRequests == UNION {Range(s) : s \in MCServices}

NvmCall(op, start, length) == [op |-> op, start |-> start, length |-> length, lock |-> 0]
MCCalls == {NvmCall("write", 4098, 200), NvmCall("write", 4102, 9),
            NvmCall("write", 262143, 2), NvmCall("write", 129008, 16),
            NvmCall("write", 129008, 17), NvmCall("unlock", 8191, 2),
            NvmCall("count", 4000, 0)}
MCProtections ==
  {[a \in 0 .. 3 |-> IF a = 0 THEN "ro" ELSE "rw"], [a \in 0 .. 3 |-> IF a = 1 THEN "none" ELSE "rw"]}

\* What the theorems assume of the calls, and of the services.
ASSUME MCCareful == Careful
ASSUME MCSteady  == Legible /\ Steady
=============================================================================
