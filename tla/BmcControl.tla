----------------------------- MODULE BmcControl -----------------------------
(***************************************************************************)
(* Commands to a BMC and their audit rows: BMCControlService.Execute       *)
(* (backend/internal/service/bmcctl.go), the table bmc_command             *)
(* (adapter/bmcctl.go), the ipmitool calls (pkg/ipmi/ipmi.go) and the      *)
(* request handlers (api/web/handler/bmc.go).  Commands do not pass        *)
(* through task.Pool: several run on one BMC at a time.                    *)
(***************************************************************************)
EXTENDS Naturals, Sequences, FiniteSets

CONSTANTS
  Command,    \* requests to one BMC
  MaxCrashes  \* bound: crashes of the server

ASSUME BmcControlAssumption == MaxCrashes \in Nat

\* cmd_type of BMCCommandInput: a fan speed or automatic mode (the policy is the
\* same), and commands that leave the fans alone (power, identify).
Kind == {"speed", "auto", "other"}

\* buildProtoCommand and ApplyCommand: the ipmitool calls of a command.
Calls(kind) == CASE kind = "speed" -> <<"manual", "speed">>
                 [] kind = "auto"  -> <<"auto">>
                 [] kind = "other" -> <<"other">>

VARIABLES
  kind,       \* what a request asks for
  stage,      \* the step it is at
  called,     \* ipmitool calls it has made
  applied,    \* history: calls of it that took effect
  row,        \* status of its row in bmc_command, or "none"
  hungUp,     \* requests whose context is cancelled
  configured, \* the host has a BMC address and a credential
  fans,       \* the BMC's fan mode
  speedBy,    \* the command that set the last speed, if any
  sole,       \* history: the last command to begin, if it ran alone
  crashes     \* up to MaxCrashes

bmcVars == <<kind, stage, called, applied, row, hungUp, configured, fans, speedBy, sole, crashes>>

Advance(c, from, to) == stage[c] = from /\ stage' = [stage EXCEPT ![c] = to]
Running == {c \in Command : stage[c] = "apply"}

-----------------------------------------------------------------------------
\* SendBmcCommand and Validate: a request that is refused does nothing.
Receive(c) ==
  /\ Advance(c, "new", "load")
  /\ \E k \in Kind : kind' = [kind EXCEPT ![c] = k]
  /\ UNCHANGED <<called, applied, row, hungUp, configured, fans, speedBy, sole, crashes>>

\* The host, its address, its credential.
LoadHost(c) ==
  /\ \/ configured /\ c \notin hungUp /\ Advance(c, "load", "audit")
     \/ Advance(c, "load", "answered")
  /\ UNCHANGED <<kind, called, applied, row, hungUp, configured, fans, speedBy, sole, crashes>>

\* Create comes first; without the row nothing is executed.
Audit(c) ==
  /\ \/ /\ c \notin hungUp
        /\ Advance(c, "audit", "apply")
        /\ row' = [row EXCEPT ![c] = "pending"]
        /\ sole' = IF Running = {} THEN {c} ELSE {}
     \/ Advance(c, "audit", "answered") /\ UNCHANGED <<row, sole>>
  /\ UNCHANGED <<kind, called, applied, hungUp, configured, fans, speedBy, crashes>>

\* What a call does to the BMC.
Effect(c, what) ==
  /\ fans' = CASE what = "manual" -> "manual" [] what = "auto" -> "auto" [] OTHER -> fans
  /\ speedBy' = IF what = "speed" THEN {c} ELSE speedBy
  /\ applied' = [applied EXCEPT ![c] = @ + 1]

\* One ipmitool call.  It fails when the BMC or the network does, or when the
\* context ends (15 s, or the client hangs up); it may have taken effect even so.
Call(c) ==
  LET next == called[c] + 1
  IN  /\ stage[c] = "apply"
      /\ called' = [called EXCEPT ![c] = next]
      /\ \/ /\ Effect(c, Calls(kind[c])[next])
            /\ stage' = [stage EXCEPT ![c] = IF next = Len(Calls(kind[c])) THEN "succeeded" ELSE "apply"]
         \/ /\ Effect(c, Calls(kind[c])[next])
            /\ stage' = [stage EXCEPT ![c] = "failed"]
         \/ /\ stage' = [stage EXCEPT ![c] = "failed"]
            /\ UNCHANGED <<fans, speedBy, applied>>
      /\ UNCHANGED <<kind, row, hungUp, configured, sole, crashes>>

Finish_AnyResult(c) ==
  /\ stage[c] \in {"succeeded", "failed"}
  /\ row' = [row EXCEPT ![c] = "success"]
  /\ stage' = [stage EXCEPT ![c] = "answered"]
  /\ UNCHANGED <<kind, called, applied, hungUp, configured, fans, speedBy, sole, crashes>>

\* Finish, with the context of the request: when that is cancelled the row stays
\* pending, which is only logged.
FinishCommand(c) ==
  /\ stage[c] \in {"succeeded", "failed"}
  /\ \/ /\ c \notin hungUp
        /\ row' = [row EXCEPT ![c] = IF stage[c] = "succeeded" THEN "success" ELSE "failed"]
     \/ UNCHANGED row
  /\ stage' = [stage EXCEPT ![c] = "answered"]
  /\ UNCHANGED <<kind, called, applied, hungUp, configured, fans, speedBy, sole, crashes>>

-----------------------------------------------------------------------------
HangUp(c) ==
  /\ stage[c] \notin {"new", "answered"} /\ c \notin hungUp
  /\ hungUp' = hungUp \cup {c}
  /\ UNCHANGED <<kind, stage, called, applied, row, configured, fans, speedBy, sole, crashes>>

\* RemoveCredential: commands that have read the credential go on.
Deconfigure ==
  /\ configured /\ configured' = FALSE
  /\ UNCHANGED <<kind, stage, called, applied, row, hungUp, fans, speedBy, sole, crashes>>

CrashControl ==
  /\ crashes < MaxCrashes /\ crashes' = crashes + 1
  /\ stage' = [c \in Command |-> IF stage[c] = "new" THEN "new" ELSE "answered"]
  /\ UNCHANGED <<kind, called, applied, row, hungUp, configured, fans, speedBy, sole>>

BmcInit ==
  /\ kind = [c \in Command |-> "other"]
  /\ stage = [c \in Command |-> "new"]
  /\ called = [c \in Command |-> 0] /\ applied = [c \in Command |-> 0]
  /\ row = [c \in Command |-> "none"]
  /\ hungUp = {} /\ configured = TRUE
  /\ fans = "auto" /\ speedBy = {} /\ sole = {}
  /\ crashes = 0

Handle(c) ==
  \/ Receive(c) \/ LoadHost(c) \/ Audit(c) \/ Call(c) \/ FinishCommand(c) \/ HangUp(c)

BmcNext == (\E c \in Command : Handle(c)) \/ Deconfigure \/ CrashControl

-----------------------------------------------------------------------------
(* Properties *)

\* The audit tells the truth, whatever crashes, is cancelled or overlaps: what
\* has touched the BMC has a row; a row says "success" only when every call took
\* effect; and the BMC is as the last such command left it, if it ran alone.
\* (The converse fails: a row may stay pending, which the list shows as failed,
\* although the command has taken effect.)
AuditTellsTheTruth ==
  \A c \in Command :
    /\ applied[c] > 0 => row[c] # "none"
    /\ row[c] = "success" => applied[c] = Len(Calls(kind[c]))
    /\ row[c] = "success" /\ c \in sole =>
         CASE kind[c] = "speed" -> fans = "manual" /\ speedBy = {c}
           [] kind[c] = "auto"  -> fans = "auto"
           [] OTHER             -> TRUE
=============================================================================
