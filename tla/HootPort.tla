------------------------------- MODULE HootPort -------------------------------
(***************************************************************************)
(* The host side of every PC-98 and DOS/V driver of the repository: hoot   *)
(* presents its request in the ports HOOTPORT (7e0h, the command) and      *)
(* 7e2h (the code), raises INT 7Fh, and honours the gate a driver writes   *)
(* to HOOTFUNC (7e8h): 80h defers requests, 81h lets them through.         *)
(*                                                                         *)
(* hoot itself is not part of the repository.  It is modelled from the way *)
(* the drivers use it: a request stays in the ports until the next one     *)
(* replaces it, the host may replace it at any moment (the gate defers the *)
(* interrupt, not the write), and a deferred request is one pending        *)
(* interrupt however many times the ports were rewritten.                  *)
(***************************************************************************)

CONSTANT
  Codes      \* the music codes the host may ask for, valid or not

VARIABLES
  gate,      \* what the driver last wrote to HOOTFUNC
  command,   \* port 7e0h
  code,      \* port 7e2h
  irq        \* an INT 7Fh the driver has not been given yet

hostVars == <<gate, command, code, irq>>

HP_PLAY     == 0
HP_LOADPLAY == 1
HP_STOP     == 2

HF_DISABLE == \h80
HF_ENABLE  == \h81

Commands == {HP_PLAY, HP_LOADPLAY, HP_STOP}

HostTypeOK ==
  /\ gate \in {HF_DISABLE, HF_ENABLE}
  /\ command \in Commands
  /\ code \in Codes
  /\ irq \in BOOLEAN

(* A driver's first output is HF_DISABLE, before its vector is installed,  *)
(* so no request can have been delivered yet.                              *)
HostInit ==
  /\ gate = HF_DISABLE
  /\ command \in Commands
  /\ code \in Codes
  /\ irq \in BOOLEAN

(* The user picks another title, or stops. *)
HostRequest ==
  /\ command' \in Commands
  /\ code' \in Codes
  /\ irq' = TRUE
  /\ UNCHANGED gate

(* hoot injects INT 7Fh: never while the gate is closed. *)
Deliverable == irq /\ gate = HF_ENABLE

Deliver ==
  /\ Deliverable
  /\ irq' = FALSE
  /\ UNCHANGED <<gate, command, code>>

SetGate(value) ==
  /\ gate' = value
  /\ UNCHANGED <<command, code, irq>>
===============================================================================
