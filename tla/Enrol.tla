-------------------------------- MODULE Enrol --------------------------------
(***************************************************************************)
(* Registration of agents: EnrollService                                   *)
(* (backend/internal/service/enroll.go) with the tables enroll_code, host  *)
(* and agent_token, and the agent that runs it once and writes three files *)
(* (agent/internal/agentapp, agentcfg).  Both channels share the service.  *)
(***************************************************************************)
EXTENDS Naturals, Sequences, FiniteSets

CONSTANTS
  Machine,        \* machines with an agent
  NoUUID,         \* those without a fingerprint
  MaxUses,        \* max_uses of the code
  MaxAttempts,    \* bound: registrations
  MaxEnrolFaults  \* bound: crashes, and store calls that fail

ASSUME EnrolAssumption ==
  /\ NoUUID \subseteq Machine
  /\ MaxUses \in Nat \ {0} /\ MaxAttempts \in Nat /\ MaxEnrolFaults \in Nat

VARIABLES
  usedCount, \* enroll_code.used_count
  expired,   \* the code's expire_at has passed
  hosts,     \* rows of host: an ID, and whose fingerprint it has
  nextHost,  \* next host ID
  attempt,   \* registrations: machine, step, and host once there is one
  tokens,    \* rows of agent_token: an attempt gets one at most
  trying,    \* the attempt of a machine's agent, 0 is none
  saving,    \* the file it writes next, or "none"
  tokenFile, \* file token: an attempt's, 0 is none
  credFile,  \* credentials.json: <<token, host>>, or <<0, 0>>
  hostFile,  \* host_id.txt: a host, 0 is none
  enrolFaults \* up to MaxEnrolFaults

codeVars == <<usedCount, expired>>
hostTable == <<hosts, nextHost>>
fileVars == <<tokenFile, credFile, hostFile>>
enrolVars == <<codeVars, hostTable, attempt, tokens, trying, saving, fileVars, enrolFaults>>

To(a, step) == attempt' = [attempt EXCEPT ![a].at = step]
Reached(a, step) == attempt[a].at = step
Fault == enrolFaults < MaxEnrolFaults /\ enrolFaults' = enrolFaults + 1

-----------------------------------------------------------------------------
(* Server: the steps of Enroll *)

\* One UPDATE under its conditions: the gate against registering twice.
Consume(a) ==
  /\ Reached(a, "sent")
  /\ IF ~expired /\ usedCount < MaxUses
     THEN usedCount' = usedCount + 1 /\ To(a, "lookup")
     ELSE To(a, "refused") /\ UNCHANGED usedCount
  /\ UNCHANGED <<expired, hostTable, tokens, trying, saving, fileVars, enrolFaults>>

SameMachine(a) == {h \in hosts : h.uuid = attempt[a].machine}

\* GetBySMBIOSUUID: the same fingerprint is the same host.
Lookup(a) ==
  /\ Reached(a, "lookup")
  /\ \/ /\ SameMachine(a) = {} /\ To(a, "create")
     \/ \E h \in SameMachine(a) :
          attempt' = [attempt EXCEPT ![a].at = "token", ![a].host = h.id]
  /\ UNCHANGED <<codeVars, hostTable, tokens, trying, saving, fileVars, enrolFaults>>

\* HostService.Create; smbios_uuid is unique, NULL excepted.
CreateHost(a) ==
  LET m == attempt[a].machine
  IN  /\ Reached(a, "create")
      /\ IF SameMachine(a) = {}
         THEN /\ hosts' = hosts \cup {[id |-> nextHost, uuid |-> IF m \in NoUUID THEN 0 ELSE m]}
              /\ nextHost' = nextHost + 1
              /\ attempt' = [attempt EXCEPT ![a].at = "token", ![a].host = nextHost]
         ELSE To(a, "refund") /\ UNCHANGED hostTable
      /\ UNCHANGED <<codeVars, tokens, trying, saving, fileVars, enrolFaults>>

Refund(a) ==
  /\ Reached(a, "refund")
  /\ usedCount' = IF usedCount > 0 THEN usedCount - 1 ELSE 0
  /\ To(a, "refused")
  /\ UNCHANGED <<expired, hostTable, tokens, trying, saving, fileVars, enrolFaults>>

\* AgentTokens().Create; the host must be there (foreign key).
IssueToken(a) ==
  /\ Reached(a, "token")
  /\ IF \E h \in hosts : h.id = attempt[a].host
     THEN tokens' = tokens \cup {a} /\ To(a, "granted")
     ELSE To(a, "refused") /\ UNCHANGED tokens
  /\ UNCHANGED <<codeVars, hostTable, trying, saving, fileVars, enrolFaults>>

\* A store call fails.  Only a failed Create is followed by Refund; a failed
\* lookup, token or Refund leaves the code used.
StoreFails(a) ==
  /\ attempt[a].at \in {"sent", "lookup", "create", "refund", "token"}
  /\ Fault
  /\ To(a, IF Reached(a, "create") THEN "refund" ELSE "refused")
  /\ UNCHANGED <<codeVars, hostTable, tokens, trying, saving, fileVars>>

\* The server dies.
ServerDies ==
  /\ Fault
  /\ attempt' = [a \in DOMAIN attempt |->
       IF attempt[a].at = "granted" THEN attempt[a] ELSE [attempt[a] EXCEPT !.at = "refused"]]
  /\ UNCHANGED <<codeVars, hostTable, tokens, trying, saving, fileVars>>

\* HostService.Delete; agent_token rows go with the host.
DeleteRow(h) ==
  /\ hosts' = hosts \ {h}
  /\ tokens' = {a \in tokens : attempt[a].host # h.id}
  /\ UNCHANGED <<codeVars, nextHost, attempt, trying, saving, fileVars, enrolFaults>>

CodeExpires ==
  /\ ~expired /\ expired' = TRUE
  /\ UNCHANGED <<usedCount, hostTable, attempt, tokens, trying, saving, fileVars, enrolFaults>>

-----------------------------------------------------------------------------
(* Agent: started with a code, it registers, writes its files and ends *)

Start(m) ==
  /\ trying[m] = 0 /\ Len(attempt) < MaxAttempts
  /\ attempt' = Append(attempt, [machine |-> m, at |-> "sent", host |-> 0])
  /\ trying' = [trying EXCEPT ![m] = Len(attempt) + 1]
  /\ UNCHANGED <<codeVars, hostTable, tokens, saving, fileVars, enrolFaults>>

\* The answer comes, or none: the attempt may be granted even so.
Answered(m) ==
  /\ trying[m] # 0 /\ saving[m] = "none"
  /\ \/ Reached(trying[m], "granted") /\ saving' = [saving EXCEPT ![m] = "token"] /\ UNCHANGED trying
     \/ trying' = [trying EXCEPT ![m] = 0] /\ UNCHANGED saving
  /\ UNCHANGED <<codeVars, hostTable, attempt, tokens, fileVars, enrolFaults>>

Saves(m, from, to) == saving[m] = from /\ saving' = [saving EXCEPT ![m] = to]

\* SaveToken: when it fails the other files are tried all the same (gRPC), or
\* the agent ends (JSON).
SaveToken(m) ==
  /\ \/ /\ Saves(m, "token", "credentials")
        /\ tokenFile' = [tokenFile EXCEPT ![m] = trying[m]] /\ UNCHANGED <<trying, enrolFaults>>
     \/ /\ Fault /\ Saves(m, "token", "credentials") /\ UNCHANGED <<trying, tokenFile>>
     \/ /\ Fault /\ Saves(m, "token", "none") /\ UNCHANGED tokenFile
        /\ trying' = [trying EXCEPT ![m] = 0]
  /\ UNCHANGED <<codeVars, hostTable, attempt, tokens, credFile, hostFile>>

SaveCredentials_HostIdFirst(m) ==
  /\ Saves(m, "credentials", "host_id")
  /\ hostFile' = [hostFile EXCEPT ![m] = attempt[trying[m]].host]
  /\ UNCHANGED <<codeVars, hostTable, attempt, tokens, trying, tokenFile, credFile, enrolFaults>>

\* credentials.json, replaced by rename.
SaveCredentials(m) ==
  /\ Saves(m, "credentials", "host_id")
  /\ credFile' = [credFile EXCEPT ![m] = <<trying[m], attempt[trying[m]].host>>]
  /\ UNCHANGED <<codeVars, hostTable, attempt, tokens, trying, tokenFile, hostFile, enrolFaults>>

SaveHostID(m) ==
  /\ Saves(m, "host_id", "none")
  /\ hostFile' = [hostFile EXCEPT ![m] = attempt[trying[m]].host]
  /\ trying' = [trying EXCEPT ![m] = 0]
  /\ UNCHANGED <<codeVars, hostTable, attempt, tokens, tokenFile, credFile, enrolFaults>>

\* The agent dies, or a write of credentials.json or host_id.txt fails.
AgentDies(m) ==
  /\ trying[m] # 0 /\ Fault
  /\ trying' = [trying EXCEPT ![m] = 0] /\ saving' = [saving EXCEPT ![m] = "none"]
  /\ UNCHANGED <<codeVars, hostTable, attempt, tokens, fileVars>>

\* Credentials: credentials.json, or else the two older files.
Identity(m) == IF credFile[m] # <<0, 0>> THEN credFile[m] ELSE <<tokenFile[m], hostFile[m]>>

EnrolInit ==
  /\ usedCount = 0 /\ expired = FALSE
  /\ hosts = {} /\ nextHost = 1
  /\ attempt = <<>> /\ tokens = {}
  /\ trying = [m \in Machine |-> 0] /\ saving = [m \in Machine |-> "none"]
  /\ tokenFile = trying /\ hostFile = trying
  /\ credFile = [m \in Machine |-> <<0, 0>>]
  /\ enrolFaults = 0

Enroll(a) == Consume(a) \/ Lookup(a) \/ CreateHost(a) \/ Refund(a) \/ IssueToken(a) \/ StoreFails(a)
Register(m) ==
  \/ Start(m) \/ Answered(m) \/ AgentDies(m)
  \/ SaveToken(m) \/ SaveCredentials(m) \/ SaveHostID(m)

EnrolNext ==
  \/ \E a \in DOMAIN attempt : Enroll(a)
  \/ \E m \in Machine : Register(m)
  \/ \E h \in hosts : DeleteRow(h)
  \/ ServerDies \/ CodeExpires

-----------------------------------------------------------------------------
(* Properties *)

Consumed == {a \in DOMAIN attempt : attempt[a].at \in {"lookup", "create", "refund", "token"}}

\* Whatever crashes and whichever of its writes fail, the identity an agent
\* starts with is a token and the host it was issued for; a code is never used
\* more often than it allows; and a fingerprint has one host.
IdentityConsistent ==
  /\ \A m \in Machine : LET id == Identity(m) IN
       id[1] # 0 /\ id[2] # 0 => attempt[id[1]].host = id[2] /\ attempt[id[1]].machine = m
  /\ Cardinality(tokens \cup Consumed) <= usedCount /\ usedCount <= MaxUses
  /\ \A g, h \in hosts : g.uuid = h.uuid /\ g.uuid # 0 => g = h
=============================================================================
