--------------------------- MODULE DefaultProfile ---------------------------
(***************************************************************************)
(* What the two ways of writing the default profile share: the run that    *)
(* refreshes the pair (CredentialPair) and the calls that make one         *)
(* (DefaultPair).  Each takes the profile lock first, an flock the kernel  *)
(* drops when its holder dies, so that the step and the vendor it is at    *)
(* belong to the one holder; pc = "idle" says that nobody holds it.        *)
(***************************************************************************)
EXTENDS Integers, FiniteSets

CONSTANTS MaxGen,   \* bound: generations of each vendor's login
          MaxFault  \* bound: crashes, failed writes and failed steps in a behaviour

ASSUME BoundAssumption == MaxGen \in Nat /\ MaxFault \in Nat

Vendor == {"claude", "codex"}
Absent == -1
Gen    == 0 .. MaxGen

VARIABLES
  marker,   \* default-profile.json: the hashes of the pair
  standard, \* the login in the operator's own vendor home
  pc, who,  \* the step the holder of the lock is at
  faults    \* crashes, and failures after which the process goes on, so far
=============================================================================
