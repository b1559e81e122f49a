---------------------------- MODULE BlockDevice ----------------------------
(***************************************************************************)
(* What a mass storage device promises to its host: commands are taken one *)
(* at a time; a write changes blocks of its own range only, in pieces; and *)
(* a command that is answered as passed has had all of its effect, a read  *)
(* that of returning what the blocks hold.  Any command may fail, or be    *)
(* given up by the host, and a write leave a part of its blocks written.   *)
(***************************************************************************)
EXTENDS Naturals, Sequences

CONSTANTS Blocks, None

VARIABLES
  disk,   \* what each block holds: the number of the command that wrote it
  cmd,    \* the command under way, or None
  answer  \* the last one answered: its number, whether it passed, what it returned

RangeOf(c) == c.lba..(c.lba + c.xfr - 1)
Contents(c) == [i \in 1..c.xfr |-> disk[c.lba + i - 1]]

Init ==
  /\ disk = [b \in Blocks |-> 0] /\ cmd = None
  /\ answer = [num |-> 0, passed |-> FALSE, got |-> <<>>]

Take ==
  /\ cmd = None
  /\ cmd' # None /\ cmd'.num > answer.num
  /\ UNCHANGED <<disk, answer>>

Store ==
  /\ cmd # None /\ cmd.op = "WRITE"
  /\ \E piece \in SUBSET (RangeOf(cmd) \intersect Blocks) :
       disk' = [b \in Blocks |-> IF b \in piece THEN cmd.num ELSE disk[b]]
  /\ UNCHANGED <<cmd, answer>>

Answer ==
  /\ cmd # None /\ cmd' = None
  /\ answer'.num = cmd.num
  /\ answer'.passed =>
       /\ cmd.op = "READ" => answer'.got = Contents(cmd)
       /\ cmd.op = "WRITE" => \A b \in RangeOf(cmd) : disk[b] = cmd.num
  /\ UNCHANGED disk

GiveUp == cmd # None /\ cmd' = None /\ UNCHANGED <<disk, answer>>

Next == Take \/ Store \/ Answer \/ GiveUp

Spec == Init /\ [][Next]_<<disk, cmd, answer>>
============================================================================
