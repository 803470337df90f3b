----------------------- MODULE PersistentStateProofs -----------------------
(***************************************************************************)
(* Proofs about what outlives a process: the rules file of the permission  *)
(* engine, the dream memory, the instances of a hosted run and those of    *)
(* the instance tools.                                                     *)
(***************************************************************************)
EXTENDS PermissionRules, DreamMemory, HostedWorker, InstanceTools,
        FiniteSetTheorems, WellFoundedInduction, TLAPS

(***************************************************************************)
(* The rules file.  As long as nothing is disturbed, at most one process   *)
(* is alive, its rules are what the user made, the temporary file is its   *)
(* own from the moment it has emptied it, and the rules file, which lacks  *)
(* just what that process has not saved, only changes by a rename of the   *)
(* whole.                                                                  *)
(***************************************************************************)
Saving == {"truncate", "write", "rename"}

(* An engine with an allowlist asks nobody, so it never saves. *)
OnlyAskersSave ==
  /\ \A c \in asking : Mode[c[1]] # "allowlist"
  /\ \A e \in Engines : phase[e] \in Saving => Mode[e] # "allowlist"

(* The one process that is alive, and what it has written so far. *)
Alone ==
  /\ \A e, f \in Alive : e = f
  /\ \A e \in Alive :
       /\ Mode[e] # "allowlist" => rules[e] = meant
       /\ phase[e] = "write" => writesTo[e] = "tmp" /\ tmp = Torn
       /\ phase[e] = "rename" => tmp = rules[e]
       /\ phase[e] = "on" /\ unsaved[e] # {} => e \in saveFailed
       /\ file = meant \ unsaved[e]
  /\ \A e \in Engines \ Alive : unsaved[e] = {}
  /\ Alive = {} => file = meant

PermInv == PermTypeOK /\ OnlyAskersSave /\ (~disturbed => Alone)

LEMMA Distinct ==
  /\ Torn \notin SUBSET Rules /\ NoFile \notin SUBSET Rules /\ Torn # NoFile
  /\ \A t \in Tools : Allow(t) \in Rules /\ Deny(t) \in Rules
<1>1. \A r \in Rules : r.kind \in {"allow", "deny"}
  BY DEF Rules, Allow, Deny
<1>2. [tool |-> "torn", kind |-> "torn"] \notin Rules /\ [tool |-> "none", kind |-> "none"] \notin Rules
  BY <1>1
<1>3. [tool |-> "torn", kind |-> "torn"] # [tool |-> "none", kind |-> "none"]
  <2>1. [tool |-> "torn", kind |-> "torn"].kind # [tool |-> "none", kind |-> "none"].kind
    OBVIOUS
  <2> QED
    BY <2>1
<1> QED
  BY <1>2, <1>3 DEF Torn, NoFile, Rules

-----------------------------------------------------------------------------
(* The type invariant, by the kind of the values. *)
FileTypes == file \in (SUBSET Rules) \cup {Torn} /\ tmp \in (SUBSET Rules) \cup {Torn, NoFile}
PhaseTypes == phase \in [Engines -> {"off", "on", "truncate", "write", "rename", "over"}]
InodeTypes == writesTo \in [Engines -> {"tmp", "file", "none"}]
RuleTypes == rules \in [Engines -> SUBSET Rules] /\ meant \subseteq Rules /\ unsaved \in [Engines -> SUBSET Rules]
CallTypes == asking \subseteq Engines \X Tools /\ ran \subseteq Engines \X Tools
DisturbedTypes == disturbed \in BOOLEAN /\ saveFailed \subseteq Engines

LEMMA PermTypeParts == PermTypeOK <=> FileTypes /\ PhaseTypes /\ InodeTypes /\ RuleTypes /\ CallTypes /\ DisturbedTypes
  BY DEF PermTypeOK, FileTypes, PhaseTypes, InodeTypes, RuleTypes, CallTypes, DisturbedTypes

LEMMA InitPermTypes == PermInit => PermTypeOK
<1> SUFFICES ASSUME PermInit PROVE PermTypeOK
  OBVIOUS
<1>1. FileTypes
  BY DEF PermInit, FileTypes
<1>2. PhaseTypes
  BY DEF PermInit, PhaseTypes
<1>3. InodeTypes
  BY DEF PermInit, InodeTypes
<1>4. RuleTypes
  BY DEF PermInit, RuleTypes
<1>5. CallTypes
  BY DEF PermInit, CallTypes
<1>6. DisturbedTypes
  BY DEF PermInit, DisturbedTypes
<1> QED
  BY <1>1, <1>2, <1>3, <1>4, <1>5, <1>6, PermTypeParts

LEMMA NextPermTypes == PermTypeOK /\ [PermNext]_permVars => PermTypeOK'
<1> SUFFICES ASSUME PermTypeOK, [PermNext]_permVars PROVE PermTypeOK'
  OBVIOUS
<1>t. FileTypes /\ PhaseTypes /\ InodeTypes /\ RuleTypes /\ CallTypes /\ DisturbedTypes
  BY PermTypeParts
<1>1. ASSUME NEW e \in Engines, Open(e) PROVE PermTypeOK'
  <2>1. FileTypes'
    BY <1>1, <1>t, Distinct DEF FileTypes, Open
  <2>2. PhaseTypes'
    BY <1>1, <1>t, Distinct DEF PhaseTypes, Open
  <2>3. InodeTypes'
    BY <1>1, <1>t, Distinct DEF InodeTypes, Open
  <2>4. RuleTypes'
    BY <1>1, <1>t, Distinct DEF RuleTypes, FileTypes, Open
  <2>5. CallTypes'
    BY <1>1, <1>t, Distinct DEF CallTypes, Open
  <2>6. DisturbedTypes'
    BY <1>1, <1>t, Distinct DEF DisturbedTypes, Open
  <2> QED
    BY <2>1, <2>2, <2>3, <2>4, <2>5, <2>6 DEF PermTypeOK, FileTypes, PhaseTypes, InodeTypes, RuleTypes, CallTypes, DisturbedTypes
<1>2. ASSUME NEW e \in Engines, Quit(e) PROVE PermTypeOK'
  <2>1. FileTypes'
    BY <1>2, <1>t, Distinct DEF FileTypes, Quit
  <2>2. PhaseTypes'
    BY <1>2, <1>t, Distinct DEF PhaseTypes, Quit
  <2>3. InodeTypes'
    BY <1>2, <1>t, Distinct DEF InodeTypes, Quit
  <2>4. RuleTypes'
    BY <1>2, <1>t, Distinct DEF RuleTypes, Quit
  <2>5. CallTypes'
    BY <1>2, <1>t, Distinct DEF CallTypes, Quit
  <2>6. DisturbedTypes'
    BY <1>2, <1>t, Distinct DEF DisturbedTypes, Quit
  <2> QED
    BY <2>1, <2>2, <2>3, <2>4, <2>5, <2>6 DEF PermTypeOK, FileTypes, PhaseTypes, InodeTypes, RuleTypes, CallTypes, DisturbedTypes
<1>3. ASSUME NEW e \in Engines, Truncate(e) PROVE PermTypeOK'
  <2>1. FileTypes'
    BY <1>3, <1>t, Distinct DEF FileTypes, Truncate, SaveFails
  <2>2. PhaseTypes'
    BY <1>3, <1>t, Distinct DEF PhaseTypes, Truncate, SaveFails
  <2>3. InodeTypes'
    BY <1>3, <1>t, Distinct DEF InodeTypes, Truncate, SaveFails
  <2>4. RuleTypes'
    BY <1>3, <1>t, Distinct DEF RuleTypes, Truncate, SaveFails
  <2>5. CallTypes'
    BY <1>3, <1>t, Distinct DEF CallTypes, Truncate, SaveFails
  <2>6. DisturbedTypes'
    BY <1>3, <1>t, Distinct DEF DisturbedTypes, Truncate, SaveFails
  <2> QED
    BY <2>1, <2>2, <2>3, <2>4, <2>5, <2>6 DEF PermTypeOK, FileTypes, PhaseTypes, InodeTypes, RuleTypes, CallTypes, DisturbedTypes
<1>4. ASSUME NEW e \in Engines, WriteRules(e) PROVE PermTypeOK'
  <2>1. FileTypes'
    BY <1>4, <1>t, Distinct DEF FileTypes, RuleTypes, InodeTypes, WriteRules, Written, SaveFails
  <2>2. PhaseTypes'
    BY <1>4, <1>t, Distinct DEF PhaseTypes, WriteRules, Written, SaveFails
  <2>3. InodeTypes'
    BY <1>4, <1>t, Distinct DEF InodeTypes, WriteRules, Written, SaveFails
  <2>4. RuleTypes'
    BY <1>4, <1>t, Distinct DEF RuleTypes, WriteRules, Written, SaveFails
  <2>5. CallTypes'
    BY <1>4, <1>t, Distinct DEF CallTypes, WriteRules, Written, SaveFails
  <2>6. DisturbedTypes'
    BY <1>4, <1>t, Distinct DEF DisturbedTypes, WriteRules, Written, SaveFails
  <2> QED
    BY <2>1, <2>2, <2>3, <2>4, <2>5, <2>6 DEF PermTypeOK, FileTypes, PhaseTypes, InodeTypes, RuleTypes, CallTypes, DisturbedTypes
<1>5. ASSUME NEW e \in Engines, Rename(e) PROVE PermTypeOK'
  <2>1. FileTypes'
    BY <1>5, <1>t, Distinct DEF FileTypes, Rename, SaveFails
  <2>2. PhaseTypes'
    BY <1>5, <1>t, Distinct DEF PhaseTypes, Rename, SaveFails
  <2>3. InodeTypes'
    BY <1>5, <1>t, Distinct DEF InodeTypes, Rename, SaveFails
  <2>4. RuleTypes'
    BY <1>5, <1>t, Distinct DEF RuleTypes, Rename, SaveFails
  <2>5. CallTypes'
    BY <1>5, <1>t, Distinct DEF CallTypes, Rename, SaveFails
  <2>6. DisturbedTypes'
    BY <1>5, <1>t, Distinct DEF DisturbedTypes, Rename, SaveFails
  <2> QED
    BY <2>1, <2>2, <2>3, <2>4, <2>5, <2>6 DEF PermTypeOK, FileTypes, PhaseTypes, InodeTypes, RuleTypes, CallTypes, DisturbedTypes
<1>6. ASSUME NEW e \in Engines, NEW t \in Tools, Call(e, t) PROVE PermTypeOK'
  <2>1. FileTypes'
    BY <1>6, <1>t, Distinct DEF FileTypes, Call
  <2>2. PhaseTypes'
    BY <1>6, <1>t, Distinct DEF PhaseTypes, Call
  <2>3. InodeTypes'
    BY <1>6, <1>t, Distinct DEF InodeTypes, Call
  <2>4. RuleTypes'
    BY <1>6, <1>t, Distinct DEF RuleTypes, Call
  <2>5. CallTypes'
    BY <1>6, <1>t, Distinct DEF CallTypes, Call
  <2>6. DisturbedTypes'
    BY <1>6, <1>t, Distinct DEF DisturbedTypes, Call
  <2> QED
    BY <2>1, <2>2, <2>3, <2>4, <2>5, <2>6 DEF PermTypeOK, FileTypes, PhaseTypes, InodeTypes, RuleTypes, CallTypes, DisturbedTypes
<1>7. ASSUME NEW e \in Engines, NEW t \in Tools, Answer(e, t) PROVE PermTypeOK'
  <2>1. FileTypes'
    BY <1>7, <1>t, Distinct DEF FileTypes, Answer
  <2>2. PhaseTypes'
    BY <1>7, <1>t, Distinct DEF PhaseTypes, Answer
  <2>3. InodeTypes'
    BY <1>7, <1>t, Distinct DEF InodeTypes, Answer
  <2>4. RuleTypes'
    BY <1>7, <1>t, Distinct DEF RuleTypes, Answer
  <2>5. CallTypes'
    BY <1>7, <1>t, Distinct DEF CallTypes, Answer
  <2>6. DisturbedTypes'
    BY <1>7, <1>t, Distinct DEF DisturbedTypes, Answer
  <2> QED
    BY <2>1, <2>2, <2>3, <2>4, <2>5, <2>6 DEF PermTypeOK, FileTypes, PhaseTypes, InodeTypes, RuleTypes, CallTypes, DisturbedTypes
<1>8. ASSUME NEW e \in Engines, NEW t \in Tools, AnswerAlways(e, t) PROVE PermTypeOK'
  <2>1. FileTypes'
    BY <1>8, <1>t, Distinct DEF FileTypes, AnswerAlways
  <2>2. PhaseTypes'
    BY <1>8, <1>t, Distinct DEF PhaseTypes, AnswerAlways
  <2>3. InodeTypes'
    BY <1>8, <1>t, Distinct DEF InodeTypes, AnswerAlways
  <2>4. RuleTypes'
    BY <1>8, <1>t, Distinct DEF RuleTypes, AnswerAlways
  <2>5. CallTypes'
    BY <1>8, <1>t, Distinct DEF CallTypes, AnswerAlways
  <2>6. DisturbedTypes'
    BY <1>8, <1>t, Distinct DEF DisturbedTypes, AnswerAlways
  <2> QED
    BY <2>1, <2>2, <2>3, <2>4, <2>5, <2>6 DEF PermTypeOK, FileTypes, PhaseTypes, InodeTypes, RuleTypes, CallTypes, DisturbedTypes
<1>9. ASSUME NEW r \in Rules, EditRules(r) PROVE PermTypeOK'
  <2>1. FileTypes'
    BY <1>9, <1>t, Distinct DEF FileTypes, EditRules
  <2>2. PhaseTypes'
    BY <1>9, <1>t, Distinct DEF PhaseTypes, EditRules
  <2>3. InodeTypes'
    BY <1>9, <1>t, Distinct DEF InodeTypes, EditRules
  <2>4. RuleTypes'
    BY <1>9, <1>t, Distinct DEF RuleTypes, EditRules
  <2>5. CallTypes'
    BY <1>9, <1>t, Distinct DEF CallTypes, EditRules
  <2>6. DisturbedTypes'
    BY <1>9, <1>t, Distinct DEF DisturbedTypes, EditRules
  <2> QED
    BY <2>1, <2>2, <2>3, <2>4, <2>5, <2>6 DEF PermTypeOK, FileTypes, PhaseTypes, InodeTypes, RuleTypes, CallTypes, DisturbedTypes
<1>10. CASE UNCHANGED permVars
  <2>1. FileTypes'
    BY <1>10, <1>t, Distinct DEF FileTypes, permVars
  <2>2. PhaseTypes'
    BY <1>10, <1>t, Distinct DEF PhaseTypes, permVars
  <2>3. InodeTypes'
    BY <1>10, <1>t, Distinct DEF InodeTypes, permVars
  <2>4. RuleTypes'
    BY <1>10, <1>t, Distinct DEF RuleTypes, permVars
  <2>5. CallTypes'
    BY <1>10, <1>t, Distinct DEF CallTypes, permVars
  <2>6. DisturbedTypes'
    BY <1>10, <1>t, Distinct DEF DisturbedTypes, permVars
  <2> QED
    BY <2>1, <2>2, <2>3, <2>4, <2>5, <2>6 DEF PermTypeOK, FileTypes, PhaseTypes, InodeTypes, RuleTypes, CallTypes, DisturbedTypes
<1> QED
  BY <1>1, <1>2, <1>3, <1>4, <1>5, <1>6, <1>7, <1>8, <1>9, <1>10 DEF PermNext, EngineStep

LEMMA InitPerm == PermInit => PermInv
<1> SUFFICES ASSUME PermInit PROVE PermInv
  OBVIOUS
<1>1. OnlyAskersSave
  BY DEF PermInit, OnlyAskersSave, Saving
<1>2. Alone
  BY DEF PermInit, Alone, Alive
<1> QED
  BY <1>1, <1>2, InitPermTypes DEF PermInv
-----------------------------------------------------------------------------
(* Who saves *)

LEMMA NextAskers == PermTypeOK /\ OnlyAskersSave /\ [PermNext]_permVars => OnlyAskersSave'
<1> SUFFICES ASSUME PermTypeOK, OnlyAskersSave, [PermNext]_permVars PROVE OnlyAskersSave'
  OBVIOUS
<1>t. phase \in [Engines -> {"off", "on", "truncate", "write", "rename", "over"}] /\ asking \subseteq Engines \X Tools
  BY DEF PermTypeOK
<1> USE DEF OnlyAskersSave, Saving
<1>1. ASSUME NEW e \in Engines, Open(e) \/ Quit(e) \/ Truncate(e) \/ WriteRules(e) \/ Rename(e) PROVE OnlyAskersSave'
  <2>1. asking' \subseteq asking
    BY <1>1 DEF Open, Quit, Truncate, WriteRules, Rename, SaveFails
  <2>2. \A f \in Engines : phase'[f] \in Saving => phase[f] \in Saving
    BY <1>1, <1>t DEF Open, Quit, Truncate, WriteRules, Rename, SaveFails
  <2> QED
    BY <2>1, <2>2
<1>2. ASSUME NEW e \in Engines, NEW t \in Tools, Call(e, t) PROVE OnlyAskersSave'
  <2>1. phase' = phase /\ (asking' = asking \/ (asking' = asking \cup {<<e, t>>} /\ Decision(e, t) = "ask"))
    BY <1>2 DEF Call
  <2>2. Decision(e, t) = "ask" => Mode[e] # "allowlist"
    BY DEF Decision
  <2> QED
    BY <2>1, <2>2
<1>3. ASSUME NEW e \in Engines, NEW t \in Tools, Answer(e, t) PROVE OnlyAskersSave'
  BY <1>3 DEF Answer
<1>4. ASSUME NEW e \in Engines, NEW t \in Tools, AnswerAlways(e, t) PROVE OnlyAskersSave'
  <2>1. <<e, t>> \in asking /\ asking' \subseteq asking
    BY <1>4 DEF AnswerAlways
  <2>2. Mode[e] # "allowlist"
    BY <2>1
  <2>3. \A f \in Engines : f # e => phase'[f] = phase[f]
    BY <1>4, <1>t DEF AnswerAlways
  <2> QED
    BY <2>1, <2>2, <2>3
<1>5. ASSUME NEW r \in Rules, EditRules(r) PROVE OnlyAskersSave'
  BY <1>5 DEF EditRules
<1>6. CASE UNCHANGED permVars
  BY <1>6 DEF permVars
<1> QED
  BY <1>1, <1>2, <1>3, <1>4, <1>5, <1>6 DEF PermNext, EngineStep

-----------------------------------------------------------------------------
(* A process alone *)

(* A step of a living process other than Open: the others are over or off. *)
LEMMA AliveStays ==
  ASSUME PermTypeOK, NEW e \in Engines, phase[e] \notin {"off", "over"},
         NEW step, step \notin {"off", "over"}, phase' = [phase EXCEPT ![e] = step]
  PROVE  e \in Alive /\ Alive' = Alive
<1>1. phase \in [Engines -> {"off", "on", "truncate", "write", "rename", "over"}]
  BY DEF PermTypeOK
<1> QED
  BY <1>1 DEF Alive

(* A save that fails: what the process has not saved is what it had not before. *)
LEMMA FailureAlone ==
  ASSUME PermTypeOK, Alone, NEW e \in Engines, phase[e] \in Saving, SaveFails(e), UNCHANGED <<file, rules, meant>>
  PROVE  Alone'
<1>t. /\ phase \in [Engines -> {"off", "on", "truncate", "write", "rename", "over"}]
      /\ saveFailed \subseteq Engines
  BY DEF PermTypeOK
<1>1. phase' = [phase EXCEPT ![e] = "on"] /\ e \in saveFailed' /\ unsaved' = unsaved
  BY DEF SaveFails
<1>2. e \in Alive /\ Alive' = Alive
  BY <1>1, AliveStays DEF Saving
<1>3. Alive = {e} /\ Alive' = {e}
  BY <1>2 DEF Alone
<1>4. phase'[e] = "on"
  BY <1>1, <1>t
<1> QED
  BY <1>1, <1>2, <1>3, <1>4 DEF Alone

LEMMA NextAlone == PermInv /\ [PermNext]_permVars => (~disturbed' => Alone')
<1> SUFFICES ASSUME PermInv, [PermNext]_permVars, ~disturbed' PROVE Alone'
  OBVIOUS
<1>t. /\ phase \in [Engines -> {"off", "on", "truncate", "write", "rename", "over"}]
      /\ writesTo \in [Engines -> {"tmp", "file", "none"}]
      /\ rules \in [Engines -> SUBSET Rules] /\ meant \subseteq Rules
      /\ unsaved \in [Engines -> SUBSET Rules] /\ saveFailed \subseteq Engines
      /\ OnlyAskersSave /\ PermTypeOK
  BY DEF PermInv, PermTypeOK
<1>a. ~disturbed
  <2>1. ASSUME NEW e \in Engines, Truncate(e) \/ WriteRules(e) \/ Rename(e) PROVE disturbed' = disturbed
    BY <2>1 DEF Truncate, WriteRules, Rename
  <2>2. ASSUME NEW e \in Engines, Open(e) \/ Quit(e) PROVE disturbed => disturbed'
    BY <2>2 DEF Open, Quit
  <2>3. ASSUME NEW e \in Engines, NEW t \in Tools, Call(e, t) \/ Answer(e, t) \/ AnswerAlways(e, t)
        PROVE  disturbed' = disturbed
    BY <2>3 DEF Call, Answer, AnswerAlways
  <2>4. ASSUME NEW r \in Rules, EditRules(r) PROVE disturbed => disturbed'
    BY <2>4 DEF EditRules
  <2> QED
    BY <2>1, <2>2, <2>3, <2>4 DEF PermNext, EngineStep, permVars
<1>b. Alone
  BY <1>a DEF PermInv
<1>f. file # Torn /\ file \subseteq meant
  <2>1. file \subseteq meant
    BY <1>b DEF Alone
  <2> QED
    BY <2>1, <1>t, Distinct
<1>1. ASSUME NEW e \in Engines, Open(e) PROVE Alone'
  <2>1. Alive = {} /\ file = meant
    BY <1>1, <1>b DEF Open, Alone
  <2>2. Alive' = {e}
    BY <1>1, <1>t, <2>1 DEF Open, Alive
  <2>3. UNCHANGED <<file, meant, unsaved>> /\ phase'[e] = "on" /\ (Mode[e] # "allowlist" => rules'[e] = file)
    BY <1>1, <1>t, <1>f DEF Open
  <2>4. \A o \in Engines : unsaved[o] = {}
    BY <1>b, <2>1 DEF Alone
  <2> QED
    BY <2>1, <2>2, <2>3, <2>4 DEF Alone
<1>2. ASSUME NEW e \in Engines, Quit(e) PROVE Alone'
  <2>1. e \in Alive
    BY <1>2 DEF Quit, Alive
  <2>2. Alive = {e}
    BY <1>b, <2>1 DEF Alone
  <2>3. Alive' = {}
    BY <1>2, <1>t, <2>2 DEF Quit, Alive
  <2>4. file' = file /\ meant' = meant \ unsaved[e] /\ unsaved' = [unsaved EXCEPT ![e] = {}]
    BY <1>2 DEF Quit
  <2>5. \A o \in Engines : unsaved'[o] = {}
    BY <1>b, <1>t, <2>2, <2>4 DEF Alone
  <2> QED
    BY <1>b, <2>1, <2>3, <2>4, <2>5 DEF Alone
<1>3. ASSUME NEW e \in Engines, Truncate(e) PROVE Alone'
  <2>1. CASE SaveFails(e)
    BY <1>3, <1>b, <1>t, <2>1, FailureAlone DEF Truncate, Saving
  <2>2. CASE ~SaveFails(e)
    <3>1. /\ phase[e] = "truncate" /\ phase' = [phase EXCEPT ![e] = "write"]
          /\ writesTo'[e] = "tmp" /\ tmp' = Torn /\ UNCHANGED <<file, rules, meant, unsaved>>
      BY <1>3, <1>t, <2>2 DEF Truncate
    <3>2. e \in Alive /\ Alive' = Alive /\ phase'[e] = "write"
      BY <1>t, <3>1, AliveStays
    <3>3. Alive = {e}
      BY <1>b, <3>2 DEF Alone
    <3> QED
      BY <1>b, <3>1, <3>2, <3>3 DEF Alone
  <2> QED
    BY <2>1, <2>2
<1>4. ASSUME NEW e \in Engines, WriteRules(e) PROVE Alone'
  <2>1. phase[e] = "write" /\ e \in Alive
    BY <1>4 DEF WriteRules, Alive
  <2>2. writesTo[e] = "tmp" /\ tmp = Torn
    BY <1>b, <2>1 DEF Alone
  <2>3. UNCHANGED <<file, rules, meant>>
    BY <1>4, <2>2 DEF WriteRules
  <2>4. CASE SaveFails(e)
    BY <1>b, <1>t, <2>1, <2>3, <2>4, FailureAlone DEF Saving
  <2>5. CASE ~SaveFails(e)
    <3>1. phase' = [phase EXCEPT ![e] = "rename"] /\ tmp' = rules[e] /\ unsaved' = unsaved
      BY <1>4, <2>2, <2>5 DEF WriteRules, Written
    <3>2. Alive' = Alive /\ phase'[e] = "rename"
      BY <1>t, <2>1, <3>1, AliveStays
    <3>3. Alive = {e}
      BY <1>b, <2>1 DEF Alone
    <3> QED
      BY <1>b, <2>1, <2>3, <3>1, <3>2, <3>3 DEF Alone
  <2> QED
    BY <2>4, <2>5
<1>5. ASSUME NEW e \in Engines, Rename(e) PROVE Alone'
  <2>1. phase[e] = "rename" /\ e \in Alive /\ UNCHANGED <<rules, meant>>
    BY <1>5 DEF Rename, Alive
  <2>2. CASE SaveFails(e) /\ file' = file
    BY <1>b, <1>t, <2>1, <2>2, FailureAlone DEF Saving
  <2>3. CASE ~(SaveFails(e) /\ file' = file)
    <3>1. tmp = rules[e] /\ rules[e] = meant
      BY <1>b, <1>t, <2>1 DEF Alone, OnlyAskersSave, Saving
    <3>2. phase' = [phase EXCEPT ![e] = "on"] /\ file' = tmp /\ unsaved' = [unsaved EXCEPT ![e] = {}]
      BY <1>5, <2>3 DEF Rename
    <3>3. Alive' = Alive /\ phase'[e] = "on" /\ unsaved'[e] = {}
      BY <1>t, <2>1, <3>2, AliveStays
    <3>4. Alive = {e}
      BY <1>b, <2>1 DEF Alone
    <3>5. \A o \in Engines \ Alive : unsaved'[o] = {}
      BY <1>b, <1>t, <2>1, <3>2 DEF Alone
    <3> QED
      BY <2>1, <3>1, <3>2, <3>3, <3>4, <3>5 DEF Alone
  <2> QED
    BY <2>2, <2>3
<1>6. ASSUME NEW e \in Engines, NEW t \in Tools, Call(e, t) \/ Answer(e, t) PROVE Alone'
  <2>1. UNCHANGED <<file, tmp, phase, writesTo, rules, meant, unsaved, saveFailed>>
    BY <1>6 DEF Call, Answer
  <2> QED
    BY <1>b, <2>1 DEF Alone, Alive
<1>7. ASSUME NEW e \in Engines, NEW t \in Tools, AnswerAlways(e, t) PROVE Alone'
  <2>1. phase[e] = "on" /\ <<e, t>> \in asking
    BY <1>7 DEF AnswerAlways
  <2>2. e \in Alive
    BY <2>1 DEF Alive
  <2>3. Mode[e] # "allowlist"
    BY <1>t, <2>1 DEF OnlyAskersSave
  <2>4. rules[e] = meant /\ file = meant \ unsaved[e] /\ Alive = {e}
    BY <1>b, <2>2, <2>3 DEF Alone
  <2>5. /\ meant' = meant \cup {Allow(t)} /\ rules'[e] = meant' /\ file' = file
        /\ saveFailed' = saveFailed
    BY <1>7, <1>t, <2>4 DEF AnswerAlways
  <2>6. CASE Allow(t) \in rules[e]
    <3>1. phase' = phase /\ unsaved' = unsaved /\ meant' = meant
      BY <1>7, <2>4, <2>5, <2>6 DEF AnswerAlways
    <3>2. Alive' = Alive
      BY <3>1 DEF Alive
    <3> QED
      BY <1>b, <2>1, <2>2, <2>4, <2>5, <3>1, <3>2 DEF Alone
  <2>7. CASE Allow(t) \notin rules[e]
    <3>1. phase' = [phase EXCEPT ![e] = "truncate"] /\ unsaved' = [unsaved EXCEPT ![e] = @ \cup {Allow(t)}]
      BY <1>7, <2>7 DEF AnswerAlways
    <3>2. Alive' = {e} /\ phase'[e] = "truncate"
      BY <1>t, <2>1, <2>4, <3>1, AliveStays
    <3>3. unsaved'[e] = unsaved[e] \cup {Allow(t)}
      BY <1>t, <3>1
    <3>4. file' = meant' \ unsaved'[e]
      BY <2>4, <2>5, <2>7, <3>3
    <3>5. \A o \in Engines \ Alive' : unsaved'[o] = {}
      BY <1>b, <1>t, <2>4, <3>1, <3>2 DEF Alone
    <3> QED
      BY <2>5, <3>2, <3>4, <3>5 DEF Alone
  <2> QED
    BY <2>6, <2>7
<1>8. ASSUME NEW r \in Rules, EditRules(r) PROVE Alone'
  <2>1. Alive = {} /\ phase' = phase /\ unsaved' = unsaved
    BY <1>8 DEF EditRules
  <2>2. file = meant /\ Alive' = {}
    BY <1>b, <2>1 DEF Alone, Alive
  <2>3. file' = file \cup {r} /\ meant' = meant \cup {r}
    BY <1>8, <1>f DEF EditRules
  <2> QED
    BY <1>b, <2>1, <2>2, <2>3 DEF Alone
<1>9. CASE UNCHANGED permVars
  BY <1>9, <1>b DEF permVars, Alone, Alive
<1> QED
  BY <1>1, <1>2, <1>3, <1>4, <1>5, <1>6, <1>7, <1>8, <1>9 DEF PermNext, EngineStep

LEMMA NextPerm == PermInv /\ [PermNext]_permVars => PermInv'
  BY NextPermTypes, NextAskers, NextAlone DEF PermInv

(* A process alone: what is not in the file is what that process has not saved. *)
LEMMA AloneKeeps == PermInv => RulesKept
<1> SUFFICES ASSUME PermInv, ~disturbed
             PROVE  /\ file = meant \ UNION {unsaved[e] : e \in Engines}
                    /\ \A e \in Alive : phase[e] = "on" /\ unsaved[e] # {} => e \in saveFailed
  BY DEF RulesKept
<1>1. Alone
  BY DEF PermInv
<1>2. CASE Alive = {}
  BY <1>1, <1>2 DEF Alone
<1>3. ASSUME NEW e \in Alive PROVE file = meant \ UNION {unsaved[o] : o \in Engines}
  <2>1. e \in Engines /\ \A o \in Engines : o # e => unsaved[o] = {}
    BY <1>1, <1>3 DEF Alone, Alive
  <2>2. file = meant \ unsaved[e]
    BY <1>1, <1>3 DEF Alone
  <2>3. UNION {unsaved[o] : o \in Engines} = unsaved[e]
    BY <2>1
  <2> QED
    BY <2>2, <2>3
<1> QED
  BY <1>1, <1>2, <1>3 DEF Alone

(* While processes run one after the other and read the file, it lacks nothing
   the user made but answers that no save has put there, for any number of
   tools and processes, whatever step of a save fails or is never reached
   (saveLocked, addRule, load). *)
THEOREM RulesKeptCorrect == PermSpec => []RulesKept
  BY AloneKeeps, InitPerm, NextPerm, PTL DEF PermSpec

-----------------------------------------------------------------------------
(***************************************************************************)
(* The dream memory.  A count that nobody prunes behind stays below what   *)
(* the newest entries leave; what memory.json holds is new to the database *)
(* from its being read until it is renamed.                                *)
(***************************************************************************)
(* While nobody removed rows behind a count, a count leaves the newest. *)
CountsHold ==
  ~raced =>
    /\ early = {}
    /\ \A s \in Processes : stage[s] = "delete" =>
         excess[s] = 0 \/ excess[s] + MaxEntries <= Cardinality(rows)

(* While imports did not overlap, memory.json is new to the database, but for
   the process that has imported it and is about to rename it. *)
ImportedOnce ==
  ~again =>
    /\ rows \cap pruned = {}
    /\ json \cap (rows \cup pruned) = {} \/ \E s \in Processes : stage[s] = "rename"
    /\ \A s \in Processes : stage[s] = "import" => copy[s] \subseteq json

DreamInv == DreamTypeOK /\ CountsHold /\ ImportedOnce

Days == 0 .. MaxClock

(* The types, by the kind of the values. *)
EntryTypes == day \in Days /\ json \subseteq Days /\ rows \subseteq Days /\ copy \in [Processes -> SUBSET Days]
DreamPlaces == stage \in [Processes -> Stages] /\ excess \in [Processes -> Nat] /\ saved \subseteq Processes
Histories == pruned \subseteq Days /\ early \subseteq pruned /\ raced \in BOOLEAN /\ again \in BOOLEAN

LEMMA DreamParts == DreamTypeOK <=> EntryTypes /\ DreamPlaces /\ Histories
  BY DEF DreamTypeOK, EntryTypes, DreamPlaces, Histories, Days

-----------------------------------------------------------------------------
(* Sets of numbers *)

LEMMA LeastNumber ==
  ASSUME NEW S, S \subseteq Nat, S # {}
  PROVE  \E i \in S : \A k \in S : i <= k
<1> DEFINE T == {1 .. i : i \in S}
           R == StrictSubsetOrdering(Nat)
<1>1. IsWellFoundedOn(R, FiniteSubsetsOf(Nat))
  BY FS_StrictSubsetOrderingWellFounded
<1>2. T # {} /\ T \subseteq FiniteSubsetsOf(Nat)
  <2>1. ASSUME NEW i \in S PROVE IsFiniteSet(1 .. i) /\ 1 .. i \subseteq Nat
    BY FS_Interval
  <2> QED
    BY <2>1 DEF FiniteSubsetsOf
<1> HIDE DEF R
<1>3. PICK t \in T : \A u \in T : ~ (<<u, t>> \in R)
  <2> HIDE DEF T
  <2> QED
    BY <1>1, <1>2, WFMin
<1>4. PICK i \in S : t = 1 .. i
  OBVIOUS
<1>5. ASSUME NEW k \in S, k < i PROVE FALSE
  <2>1. i \in 1 .. i /\ ~ (i \in 1 .. k) /\ 1 .. k \subseteq 1 .. i
    BY <1>5
  <2>2. <<1 .. k, 1 .. i>> \in StrictSubsetOrdering(Nat)
    BY <2>1 DEF StrictSubsetOrdering
  <2> QED
    BY <1>3, <1>4, <2>2 DEF R
<1> QED
  BY <1>5

LEMMA MaxIsMember ==
  ASSUME NEW n \in Nat, NEW S \in SUBSET (0 .. n), S # {}
  PROVE  Max(S) \in S /\ \A k \in S : k <= Max(S)
<1> DEFINE U == {x \in Nat : \A k \in S : k <= x}
<1>1. n \in U
  OBVIOUS
<1>2. PICK m \in U : \A x \in U : m <= x
  BY <1>1, LeastNumber
<1>3. m \in S
  <2>1. CASE m \notin S
    <3>1. \A k \in S : k < m /\ k \in Nat
      BY <2>1
    <3>2. m - 1 \in Nat /\ \A k \in S : k <= m - 1
      <4>1. PICK k \in S : k < m /\ k \in Nat
        BY <3>1
      <4>2. m \in Nat /\ m - 1 \in Nat
        BY <4>1
      <4> QED
        BY <3>1, <4>2
    <3> QED
      BY <1>2, <3>2
  <2> QED
    BY <2>1
<1>4. \E x \in S : \A k \in S : x >= k
  BY <1>2, <1>3
<1>5. Max(S) \in S /\ \A k \in S : Max(S) >= k
  BY <1>4 DEF Max
<1> QED
  BY <1>5

LEMMA DaysFinite == ASSUME NEW S \in SUBSET Days PROVE IsFiniteSet(S) /\ Cardinality(S) \in Nat
<1>1. IsFiniteSet(Days)
  BY DreamAssumption, FS_Interval DEF Days
<1> QED
  BY <1>1, FS_Subset, FS_CardinalityType

LEMMA OlderAndNewer ==
  ASSUME NEW S \in SUBSET Days, NEW e \in S
  PROVE  /\ Cardinality({f \in S : f < e}) \in Nat /\ Cardinality({f \in S : f > e}) \in Nat
         /\ Cardinality({f \in S : f < e}) + Cardinality({f \in S : f > e}) + 1 = Cardinality(S)
<1> DEFINE older == {f \in S : f < e}
           newer == {f \in S : f > e}
<1>1. older \in SUBSET Days /\ newer \in SUBSET Days /\ older \cup newer \in SUBSET Days
  OBVIOUS
<1>2. older \cap newer = {} /\ e \notin older \cup newer /\ S = (older \cup newer) \cup {e}
  <2>1. e \in Int /\ \A f \in S : f \in Int
    BY DreamAssumption DEF Days
  <2>2. ASSUME NEW f \in S PROVE f = e \/ f < e \/ f > e
    BY <2>1
  <2>3. \A f \in S : ~(f < e /\ f > e) /\ ~(e < e) /\ ~(e > e)
    BY <2>1
  <2> QED
    BY <2>2, <2>3
<1> HIDE DEF older, newer
<1>3. Cardinality(older \cup newer) = Cardinality(older) + Cardinality(newer)
  <2>1. Cardinality(older \cap newer) = 0
    BY <1>2, FS_EmptySet
  <2>2. IsFiniteSet(older) /\ IsFiniteSet(newer) /\ Cardinality(older) \in Nat /\ Cardinality(newer) \in Nat
    BY <1>1, DaysFinite
  <2>3. Cardinality(older \cup newer) = Cardinality(older) + Cardinality(newer) - Cardinality(older \cap newer)
    BY <2>2, FS_Union
  <2> QED
    BY <2>1, <2>2, <2>3
<1>4. Cardinality(S) = Cardinality(older \cup newer) + 1
  BY <1>1, <1>2, DaysFinite, FS_AddElement
<1> QED
  BY <1>1, <1>3, <1>4, DaysFinite DEF older, newer

(* Deleting the oldest in excess leaves the newest MaxEntries. *)
LEMMA OldestNotNewest ==
  ASSUME NEW S \in SUBSET Days, NEW k \in Nat, k = 0 \/ k + MaxEntries <= Cardinality(S)
  PROVE  Oldest(S, k) \cap Newest(S, MaxEntries) = {}
<1>1. ASSUME NEW e \in Oldest(S, k), e \in Newest(S, MaxEntries) PROVE FALSE
  <2>1. e \in S /\ Cardinality({f \in S : f < e}) < k /\ Cardinality({f \in S : f > e}) < MaxEntries
    BY <1>1 DEF Oldest, Newest
  <2> DEFINE older == Cardinality({f \in S : f < e})
             newer == Cardinality({f \in S : f > e})
  <2>2. older \in Nat /\ newer \in Nat /\ older + newer + 1 = Cardinality(S)
    BY <2>1, OlderAndNewer
  <2> HIDE DEF older, newer
  <2>3. older < k /\ newer < MaxEntries
    BY <2>1 DEF older, newer
  <2> QED
    BY <2>2, <2>3, DreamAssumption
<1> QED
  BY <1>1

-----------------------------------------------------------------------------
LEMMA InitDream == DreamInit => DreamInv
<1> SUFFICES ASSUME DreamInit PROVE DreamInv
  OBVIOUS
<1>1. EntryTypes
  <2>1. day \in Days
    <3>1. OldEntries \in SUBSET (0 .. MaxClock) /\ 0 \in Days /\ MaxClock \in Nat
      BY DreamAssumption DEF Days
    <3>2. OldEntries # {} => Max(OldEntries) \in OldEntries
      BY <3>1, MaxIsMember
    <3> QED
      BY <3>1, <3>2 DEF DreamInit, Days
  <2> QED
    BY <2>1, DreamAssumption DEF DreamInit, EntryTypes, Days
<1>2. DreamPlaces
  BY DEF DreamInit, DreamPlaces, Stages
<1>3. Histories
  BY DEF DreamInit, Histories
<1>4. CountsHold /\ ImportedOnce
  BY DEF DreamInit, CountsHold, ImportedOnce
<1> QED
  BY <1>1, <1>2, <1>3, <1>4, DreamParts DEF DreamInv

LEMMA Pruned ==
  /\ \A E : TooOld(E) \subseteq E
  /\ \A E, n : Newest(E, n) \subseteq E /\ Oldest(E, n) \subseteq E
  BY DEF TooOld, Newest, Oldest

LEMMA NextEntries == DreamTypeOK /\ [DreamNext]_dreamVars => EntryTypes'
<1> SUFFICES ASSUME DreamTypeOK, [DreamNext]_dreamVars PROVE EntryTypes'
  OBVIOUS
<1>t. EntryTypes
  BY DreamParts
<1> USE <1>t DEF EntryTypes
<1>1. ASSUME NEW s \in Processes, OpenJSON(s) \/ OpenSQLite(s) \/ Import(s) \/ RenameImported(s) PROVE EntryTypes'
  BY <1>1 DEF OpenJSON, OpenSQLite, Import, RenameImported
<1>2. ASSUME NEW s \in Processes, PruneJSON(s) PROVE EntryTypes'
  <2>1. PICK kept \in SUBSET copy[s] : copy' = [copy EXCEPT ![s] = kept] /\ json' = kept /\ UNCHANGED <<day, rows>>
    <3> DEFINE young == copy[s] \ TooOld(copy[s])
               kept == IF MaxEntries > 0 THEN Newest(young, MaxEntries) ELSE young
    <3>1. kept \in SUBSET copy[s]
      BY Pruned
    <3> QED
      BY <1>2, <3>1 DEF PruneJSON
  <2> QED
    BY <2>1
<1>3. ASSUME NEW s \in Processes, PruneAge(s) \/ PruneCount(s) \/ PruneExcess(s) \/ Close(s) PROVE EntryTypes'
  BY <1>3 DEF PruneAge, PruneCount, PruneExcess, Close
<1>4. ASSUME NEW s \in Processes, Consolidated(s) PROVE EntryTypes'
  BY <1>4 DEF Consolidated
<1>5. CASE Tick
  BY <1>5, DreamAssumption DEF Tick, Days
<1>6. CASE UNCHANGED dreamVars
  BY <1>6 DEF dreamVars
<1> QED
  BY <1>1, <1>2, <1>3, <1>4, <1>5, <1>6 DEF DreamNext, SessionStep

LEMMA NextDreamPlaces == DreamTypeOK /\ [DreamNext]_dreamVars => DreamPlaces'
<1> SUFFICES ASSUME DreamTypeOK, [DreamNext]_dreamVars PROVE DreamPlaces'
  OBVIOUS
<1>t. EntryTypes /\ DreamPlaces
  BY DreamParts
<1> USE <1>t DEF DreamPlaces, Stages, StageTo
<1>1. ASSUME NEW s \in Processes, OpenJSON(s) \/ OpenSQLite(s) \/ Import(s) \/ RenameImported(s) PROVE DreamPlaces'
  BY <1>1 DEF OpenJSON, OpenSQLite, Import, RenameImported
<1>2. ASSUME NEW s \in Processes, PruneJSON(s) \/ PruneAge(s) \/ PruneExcess(s) \/ Close(s) PROVE DreamPlaces'
  BY <1>2 DEF PruneJSON, PruneAge, PruneExcess, Close
<1>3. ASSUME NEW s \in Processes, PruneCount(s) PROVE DreamPlaces'
  <2>1. Cardinality(rows) \in Nat
    BY DaysFinite DEF EntryTypes
  <2>2. (IF Cardinality(rows) > MaxEntries THEN Cardinality(rows) - MaxEntries ELSE 0) \in Nat
    BY <2>1, DreamAssumption
  <2> QED
    BY <1>3, <2>2 DEF PruneCount
<1>4. ASSUME NEW s \in Processes, Consolidated(s) PROVE DreamPlaces'
  BY <1>4 DEF Consolidated
<1>5. CASE Tick
  BY <1>5 DEF Tick
<1>6. CASE UNCHANGED dreamVars
  BY <1>6 DEF dreamVars
<1> QED
  BY <1>1, <1>2, <1>3, <1>4, <1>5, <1>6 DEF DreamNext, SessionStep

LEMMA NextHistories == DreamTypeOK /\ [DreamNext]_dreamVars => Histories'
<1> SUFFICES ASSUME DreamTypeOK, [DreamNext]_dreamVars PROVE Histories'
  OBVIOUS
<1>t. EntryTypes /\ Histories
  BY DreamParts
<1> USE <1>t DEF Histories
<1>1. ASSUME NEW s \in Processes, OpenJSON(s) \/ OpenSQLite(s) \/ PruneJSON(s) \/ PruneCount(s) PROVE Histories'
  BY <1>1 DEF OpenJSON, OpenSQLite, PruneJSON, PruneCount
<1>2. ASSUME NEW s \in Processes, Import(s) \/ RenameImported(s) \/ Consolidated(s) \/ Close(s) PROVE Histories'
  BY <1>2 DEF Import, RenameImported, Consolidated, Close, ImportsBeside
<1>3. ASSUME NEW s \in Processes, PruneAge(s) \/ PruneExcess(s) PROVE Histories'
  BY <1>3, Pruned DEF PruneAge, PruneExcess, Races, EntryTypes
<1>4. CASE Tick
  BY <1>4 DEF Tick
<1>5. CASE UNCHANGED dreamVars
  BY <1>5 DEF dreamVars
<1> QED
  BY <1>1, <1>2, <1>3, <1>4, <1>5 DEF DreamNext, SessionStep

LEMMA NextDreamTypes == DreamTypeOK /\ [DreamNext]_dreamVars => DreamTypeOK'
<1>1. (DreamTypeOK <=> EntryTypes /\ DreamPlaces /\ Histories)'
  BY DEF DreamTypeOK, EntryTypes, DreamPlaces, Histories, Days
<1> QED
  BY <1>1, NextEntries, NextDreamPlaces, NextHistories

-----------------------------------------------------------------------------
(* Rows that are added leave a count on the safe side. *)
LEMMA MoreRows ==
  ASSUME rows \subseteq Days, rows' \subseteq Days, rows \subseteq rows'
  PROVE  Cardinality(rows) \in Nat /\ Cardinality(rows') \in Nat /\ Cardinality(rows) <= Cardinality(rows')
  BY DaysFinite, FS_Subset

LEMMA NextCountsHold == DreamInv /\ [DreamNext]_dreamVars => CountsHold'
<1> SUFFICES ASSUME DreamInv, [DreamNext]_dreamVars, ~raced' PROVE CountsHold'
  BY DEF CountsHold
<1>t. EntryTypes /\ DreamPlaces /\ CountsHold /\ Cardinality(rows) \in Nat /\ MaxEntries \in Nat
  BY DreamParts, DaysFinite, DreamAssumption DEF DreamInv, EntryTypes
<1>e. EntryTypes'
  BY NextEntries DEF DreamInv
<1>1. ASSUME NEW s \in Processes, OpenJSON(s) \/ OpenSQLite(s) \/ PruneJSON(s) \/ RenameImported(s) \/ Close(s)
      PROVE  CountsHold'
  <2>1. UNCHANGED <<rows, excess, early, raced>> /\ \A o \in Processes : stage'[o] = "delete" => stage[o] = "delete"
    BY <1>1, <1>t DEF OpenJSON, OpenSQLite, PruneJSON, RenameImported, Close, StageTo, DreamPlaces
  <2> QED
    BY <1>t, <2>1 DEF CountsHold
<1>2. ASSUME NEW s \in Processes, Import(s) \/ Consolidated(s) PROVE CountsHold'
  <2>1. /\ UNCHANGED <<excess, early, raced>> /\ rows \subseteq rows'
        /\ \A o \in Processes : stage'[o] = "delete" => stage[o] = "delete"
    BY <1>2, <1>t DEF Import, Consolidated, StageTo, DreamPlaces
  <2>2. Cardinality(rows') \in Nat /\ Cardinality(rows) <= Cardinality(rows')
    BY <1>t, <1>e, <2>1, MoreRows DEF EntryTypes
  <2> QED
    BY <1>t, <2>1, <2>2 DEF CountsHold, DreamPlaces
<1>3. ASSUME NEW s \in Processes, PruneCount(s) PROVE CountsHold'
  <2>1. /\ UNCHANGED <<rows, early, raced>>
        /\ excess'[s] = IF Cardinality(rows) > MaxEntries THEN Cardinality(rows) - MaxEntries ELSE 0
        /\ \A o \in Processes \ {s} : excess'[o] = excess[o] /\ stage'[o] = stage[o]
    BY <1>3, <1>t DEF PruneCount, StageTo, DreamPlaces
  <2>2. excess'[s] = 0 \/ excess'[s] + MaxEntries <= Cardinality(rows)
    BY <1>t, <2>1
  <2> QED
    BY <1>t, <2>1, <2>2 DEF CountsHold
<1>4. ASSUME NEW s \in Processes, NEW gone \in SUBSET rows,
             rows' = rows \ gone, raced' = (raced \/ Races(s, gone)), early' \subseteq early, excess' = excess,
             stage'[s] # "delete", \A o \in Processes \ {s} : stage'[o] = stage[o]
      PROVE  CountsHold'
  <2>1. gone = {} \/ \A o \in Processes : stage'[o] # "delete"
    BY <1>4 DEF Races
  <2>2. ~raced
    BY <1>4
  <2>3. CASE gone = {}
    <3>1. rows' = rows
      BY <1>4, <2>3
    <3> QED
      BY <1>4, <1>t, <2>2, <3>1 DEF CountsHold
  <2>4. CASE \A o \in Processes : stage'[o] # "delete"
    BY <1>4, <1>t, <2>2, <2>4 DEF CountsHold
  <2> QED
    BY <2>1, <2>3, <2>4
<1>5. ASSUME NEW s \in Processes, PruneAge(s) PROVE CountsHold'
  <2>1. /\ rows' = rows \ TooOld(rows) /\ raced' = (raced \/ Races(s, TooOld(rows)))
        /\ UNCHANGED <<early, excess>> /\ stage'[s] # "delete" /\ \A o \in Processes \ {s} : stage'[o] = stage[o]
    BY <1>5, <1>t DEF PruneAge, StageTo, DreamPlaces
  <2> QED
    BY <1>4, <2>1, Pruned
<1>6. ASSUME NEW s \in Processes, PruneExcess(s) PROVE CountsHold'
  <2> DEFINE gone == Oldest(rows, excess[s])
  <2>1. /\ rows' = rows \ gone /\ raced' = (raced \/ Races(s, gone))
        /\ early' = early \cup (gone \cap Newest(rows, MaxEntries)) /\ excess' = excess
        /\ stage[s] = "delete" /\ stage'[s] # "delete" /\ \A o \in Processes \ {s} : stage'[o] = stage[o]
    BY <1>6, <1>t DEF PruneExcess, StageTo, DreamPlaces
  <2>2. excess[s] \in Nat /\ (excess[s] = 0 \/ excess[s] + MaxEntries <= Cardinality(rows))
    BY <1>t, <2>1 DEF CountsHold, DreamPlaces
  <2>3. gone \cap Newest(rows, MaxEntries) = {}
    BY <1>t, <2>2, OldestNotNewest DEF EntryTypes
  <2>4. gone \in SUBSET rows
    BY Pruned
  <2> QED
    BY <1>4, <2>1, <2>3, <2>4
<1>7. CASE Tick \/ UNCHANGED dreamVars
  BY <1>7, <1>t DEF Tick, dreamVars, CountsHold
<1> QED
  BY <1>1, <1>2, <1>3, <1>5, <1>6, <1>7 DEF DreamNext, SessionStep

LEMMA NextImportedOnce == DreamInv /\ [DreamNext]_dreamVars => ImportedOnce'
<1> SUFFICES ASSUME DreamInv, [DreamNext]_dreamVars, ~again' PROVE ImportedOnce'
  BY DEF ImportedOnce
<1>t. EntryTypes /\ DreamPlaces /\ Histories /\ ImportedOnce
  BY DreamParts DEF DreamInv
<1>s. \A s \in Processes, step \in Stages : StageTo(s, step) =>
        stage'[s] = step /\ \A o \in Processes \ {s} : stage'[o] = stage[o]
  BY <1>t DEF StageTo, DreamPlaces
<1>a. again => again'
  BY DEF DreamNext, SessionStep, Tick, OpenJSON, OpenSQLite, Import, RenameImported, PruneJSON, PruneAge,
     PruneCount, PruneExcess, Consolidated, Close, dreamVars
<1>n. /\ ~again /\ rows \cap pruned = {}
      /\ json \cap (rows \cup pruned) = {} \/ \E s \in Processes : stage[s] = "rename"
      /\ \A s \in Processes : stage[s] = "import" => copy[s] \subseteq json
  BY <1>a, <1>t DEF ImportedOnce
<1>1. ASSUME NEW s \in Processes, OpenJSON(s) PROVE ImportedOnce'
  <2>1. /\ UNCHANGED <<json, rows, pruned>> /\ stage[s] = "off" /\ stage'[s] \in {"age", "open"}
        /\ \A o \in Processes \ {s} : stage'[o] = stage[o] /\ copy'[o] = copy[o]
    BY <1>1, <1>s, <1>t DEF OpenJSON, Stages, EntryTypes
  <2> QED
    BY <1>n, <2>1 DEF ImportedOnce
<1>2. ASSUME NEW s \in Processes, OpenSQLite(s) PROVE ImportedOnce'
  <2>1. /\ UNCHANGED <<json, rows, pruned>> /\ stage[s] = "off" /\ stage'[s] \in {"import", "age", "open"}
        /\ copy'[s] \subseteq json
        /\ \A o \in Processes \ {s} : stage'[o] = stage[o] /\ copy'[o] = copy[o]
    BY <1>2, <1>s, <1>t DEF OpenSQLite, Stages, EntryTypes
  <2> QED
    BY <1>n, <2>1 DEF ImportedOnce
<1>3. ASSUME NEW s \in Processes, Import(s) PROVE ImportedOnce'
  <2>1. /\ UNCHANGED <<json, copy, pruned>> /\ stage[s] = "import" /\ stage'[s] \in {"over", "rename"}
        /\ rows' = rows \/ (rows' = rows \cup copy[s] /\ stage'[s] = "rename")
        /\ \A o \in Processes \ {s} : stage'[o] = stage[o] /\ stage[o] \notin {"import", "rename"}
    BY <1>3, <1>s DEF Import, Stages, ImportsBeside
  <2>2. json \cap (rows \cup pruned) = {} /\ copy[s] \subseteq json
    BY <1>n, <2>1
  <2> QED
    BY <1>n, <2>1, <2>2 DEF ImportedOnce
<1>4. ASSUME NEW s \in Processes, RenameImported(s) PROVE ImportedOnce'
  <2>1. /\ UNCHANGED <<rows, pruned>> /\ json' = {} /\ stage'[s] \in {"age", "open"}
        /\ \A o \in Processes \ {s} : stage'[o] = stage[o] /\ stage[o] # "import"
    BY <1>4, <1>s DEF RenameImported, Stages, ImportsBeside
  <2> QED
    BY <1>n, <2>1 DEF ImportedOnce
<1>5. ASSUME NEW s \in Processes, PruneJSON(s) PROVE FALSE
  BY <1>5 DEF PruneJSON
<1>6. ASSUME NEW s \in Processes, NEW gone \in SUBSET rows,
             rows' = rows \ gone, pruned' = pruned \cup gone, UNCHANGED <<json, copy>>,
             stage[s] \in {"age", "delete"}, stage'[s] \in {"count", "open"},
             \A o \in Processes \ {s} : stage'[o] = stage[o]
      PROVE  ImportedOnce'
  <2>1. rows' \cap pruned' = {} /\ rows' \cup pruned' = rows \cup pruned
    BY <1>6, <1>n
  <2> QED
    BY <1>6, <1>n, <2>1 DEF ImportedOnce
<1>7. ASSUME NEW s \in Processes, PruneAge(s) PROVE ImportedOnce'
  <2>1. /\ rows' = rows \ TooOld(rows) /\ pruned' = pruned \cup TooOld(rows) /\ UNCHANGED <<json, copy>>
        /\ stage[s] = "age" /\ stage'[s] \in {"count", "open"} /\ \A o \in Processes \ {s} : stage'[o] = stage[o]
    BY <1>7, <1>s DEF PruneAge, Stages
  <2> QED
    BY <1>6, <2>1, Pruned
<1>8. ASSUME NEW s \in Processes, PruneExcess(s) PROVE ImportedOnce'
  <2> DEFINE gone == Oldest(rows, excess[s])
  <2>1. /\ rows' = rows \ gone /\ pruned' = pruned \cup gone /\ UNCHANGED <<json, copy>>
        /\ stage[s] = "delete" /\ stage'[s] = "open" /\ \A o \in Processes \ {s} : stage'[o] = stage[o]
    BY <1>8, <1>s DEF PruneExcess, Stages
  <2>2. gone \in SUBSET rows
    BY Pruned
  <2> QED
    BY <1>6, <2>1, <2>2
<1>9. ASSUME NEW s \in Processes, PruneCount(s) \/ Close(s) PROVE ImportedOnce'
  <2>1. /\ UNCHANGED <<json, rows, copy, pruned>> /\ stage[s] # "rename" /\ stage'[s] \in {"delete", "over"}
        /\ \A o \in Processes \ {s} : stage'[o] = stage[o]
    BY <1>9, <1>s DEF PruneCount, Close, Stages
  <2> QED
    BY <1>n, <2>1 DEF ImportedOnce
<1>10. ASSUME NEW s \in Processes, Consolidated(s) PROVE ImportedOnce'
  <2>1. /\ UNCHANGED <<json, copy, pruned>> /\ rows' = rows \cup {day} /\ day \notin rows \cup json \cup pruned
        /\ stage[s] = "open" /\ stage'[s] \in {"age", "over"} /\ \A o \in Processes \ {s} : stage'[o] = stage[o]
    BY <1>10, <1>s DEF Consolidated, Stages
  <2> QED
    BY <1>n, <2>1 DEF ImportedOnce
<1>11. CASE Tick \/ UNCHANGED dreamVars
  BY <1>11, <1>n DEF Tick, dreamVars, ImportedOnce
<1> QED
  BY <1>1, <1>2, <1>3, <1>4, <1>5, <1>7, <1>8, <1>9, <1>10, <1>11 DEF DreamNext, SessionStep

LEMMA NextDream == DreamInv /\ [DreamNext]_dreamVars => DreamInv'
  BY NextDreamTypes, NextCountsHold, NextImportedOnce DEF DreamInv

(* Retention and the import of memory.json, for any number of processes, limit,
   age and clock, wherever a process is killed (Prune, importFromJSONIfEmpty). *)
THEOREM RetentionHoldsCorrect == DreamSpec => []RetentionHolds
<1>1. DreamInv => RetentionHolds
  BY DEF DreamInv, CountsHold, ImportedOnce, RetentionHolds
<1> QED
  BY <1>1, InitDream, NextDream, PTL DEF DreamSpec

-----------------------------------------------------------------------------
(***************************************************************************)
(* A hosted run.  The refusals are counted by the attempts of the rounds   *)
(* as long as the cleanup has its time.                                    *)
(***************************************************************************)
(* The deletions refused so far: attempts of this round, all of the earlier. *)
EarlierRefusals(r) == IF r = 1 THEN 0 ELSE MaxTries

RefusalsCounted ==
  /\ hosted \in HostedStages \ {"delete", "pause", "stop", "settle", "returned"} =>
       round = 1 /\ attempt = 1 /\ refused = 0
  /\ hosted = "delete" =>
       /\ refused <= EarlierRefusals(round) + attempt - 1
       /\ cleanupLive => refused = EarlierRefusals(round) + attempt - 1
  /\ hosted = "pause" =>
       /\ refused <= EarlierRefusals(round) + attempt
       /\ cleanupLive => refused = EarlierRefusals(round) + attempt
  /\ hosted \in {"stop", "settle"} =>
       /\ round = 1 /\ refused <= MaxTries
       /\ cleanupLive => refused = MaxTries

HostedInv == HostedTypeOK /\ RefusalsCounted /\ HostedGone

HostedPlaces ==
  /\ hosted \in HostedStages
  /\ round \in 1 .. 2 /\ attempt \in 1 .. MaxTries
  /\ refused \in 0 .. (2 * MaxTries)
HostedFlags ==
  /\ {callerLive, cleanupLive, instanceUp, replyLost} \subseteq BOOLEAN
  /\ contract \in {"none", "ok", "error"}

LEMMA HostedParts == HostedTypeOK <=> HostedPlaces /\ HostedFlags
  BY DEF HostedTypeOK, HostedPlaces, HostedFlags

LEMMA StepsOfContract ==
  /\ ContractSteps[1] = "health" /\ ContractSteps[2] = "upload"
  /\ ContractSteps[3] = "exec" /\ ContractSteps[4] = "download"
  /\ HostedStages = {"create", "resolve", "clear", "delete", "pause", "stop", "settle",
                     "returned", "health", "upload", "exec", "download"}
<1>1. /\ ContractSteps[1] = "health" /\ ContractSteps[2] = "upload"
      /\ ContractSteps[3] = "exec" /\ ContractSteps[4] = "download"
  BY DEF ContractSteps
<1>2. {ContractSteps[i] : i \in 1 .. 4} = {"health", "upload", "exec", "download"}
  <2>1. 1 .. 4 = {1, 2, 3, 4}
    OBVIOUS
  <2> QED
    BY <1>1, <2>1
<1> QED
  BY <1>1, <1>2 DEF HostedStages

LEMMA ContractGoesOn ==
  ASSUME ContractStep
  PROVE  /\ hosted \in {"health", "upload", "exec", "download"}
         /\ hosted' \in {"upload", "exec", "download", "delete"}
         /\ contract' \in {contract, "ok", "error"}
         /\ UNCHANGED <<callerLive, cleanupLive, instanceUp, replyLost, round, attempt, refused>>
<1>1. PICK i \in 1 .. 4 :
    /\ hosted = ContractSteps[i]
    /\ \/ /\ callerLive
          /\ hosted' = IF i = 4 THEN "delete" ELSE ContractSteps[i + 1]
          /\ contract' = IF i = 4 THEN "ok" ELSE contract
       \/ /\ i = 3 /\ callerLive
          /\ hosted' = "delete" /\ contract' = "ok"
       \/ hosted' = "delete" /\ contract' = "error"
    /\ UNCHANGED <<callerLive, cleanupLive, instanceUp, replyLost, round, attempt, refused>>
  BY DEF ContractStep
<1>2. i = 1 \/ i = 2 \/ i = 3 \/ i = 4
  OBVIOUS
<1>3. 1 + 1 = 2 /\ 2 + 1 = 3 /\ 3 + 1 = 4
  OBVIOUS
<1> QED
  BY <1>1, <1>2, <1>3, StepsOfContract

LEMMA InitHosted == HostedInit => HostedInv
<1> SUFFICES ASSUME HostedInit PROVE HostedInv
  OBVIOUS
<1>1. HostedPlaces
  BY StepsOfContract, TriesAssumption DEF HostedInit, HostedPlaces
<1>2. HostedFlags
  BY DEF HostedInit, HostedFlags
<1>3. RefusalsCounted /\ HostedGone
  BY DEF HostedInit, RefusalsCounted, HostedGone
<1> QED
  BY <1>1, <1>2, <1>3, HostedParts DEF HostedInv

LEMMA NextHostedFlags == HostedFlags /\ [HostedNext]_hostedVars => HostedFlags'
<1> SUFFICES ASSUME HostedFlags, [HostedNext]_hostedVars PROVE HostedFlags'
  OBVIOUS
<1> USE DEF HostedFlags
<1>1. CASE CallerEnds \/ CleanupExpires \/ ResolveHosted \/ ClearDownload \/ TryDelete
  BY <1>1 DEF CallerEnds, CleanupExpires, ResolveHosted, ClearDownload, TryDelete
<1>2. CASE CreateHosted
  BY <1>2 DEF CreateHosted
<1>3. CASE ContractStep
  BY <1>3, ContractGoesOn
<1>4. CASE PauseDelete \/ StopHosted \/ Settle
  BY <1>4 DEF PauseDelete, StopHosted, Settle
<1>5. CASE UNCHANGED hostedVars
  BY <1>5 DEF hostedVars
<1> QED
  BY <1>1, <1>2, <1>3, <1>4, <1>5 DEF HostedNext

(* One deletion: it is counted when the cleanup's context is live. *)
LEMMA NextHostedInv ==
  HostedInv /\ [HostedNext]_hostedVars => HostedPlaces' /\ RefusalsCounted' /\ HostedGone'
<1> SUFFICES ASSUME HostedInv, [HostedNext]_hostedVars
             PROVE  HostedPlaces' /\ RefusalsCounted' /\ HostedGone'
  OBVIOUS
<1>m. MaxTries \in Nat \ {0}
  BY TriesAssumption
<1>i. HostedPlaces /\ RefusalsCounted /\ HostedGone
  BY HostedParts DEF HostedInv
<1> USE <1>m, <1>i DEF HostedPlaces, RefusalsCounted, HostedGone, EarlierRefusals
<1>1. CASE CallerEnds
  BY <1>1 DEF CallerEnds
<1>2. CASE CleanupExpires
  BY <1>2 DEF CleanupExpires
<1>3. CASE CreateHosted
  BY <1>3, StepsOfContract DEF CreateHosted
<1>4. CASE ResolveHosted \/ ClearDownload
  BY <1>4, StepsOfContract DEF ResolveHosted, ClearDownload
<1>5. CASE ContractStep
  BY <1>5, StepsOfContract, ContractGoesOn
<1>6. CASE TryDelete
  BY <1>6, StepsOfContract DEF TryDelete, CleanupContext
<1>7. CASE PauseDelete
  BY <1>7, StepsOfContract DEF PauseDelete, CleanupContext
<1>8. CASE StopHosted
  BY <1>8, StepsOfContract DEF StopHosted
<1>9. CASE Settle
  BY <1>9, StepsOfContract DEF Settle, CleanupContext
<1>10. CASE UNCHANGED hostedVars
  BY <1>10 DEF hostedVars
<1> QED
  BY <1>1, <1>2, <1>3, <1>4, <1>5, <1>6, <1>7, <1>8, <1>9, <1>10 DEF HostedNext

LEMMA NextHosted == HostedInv /\ [HostedNext]_hostedVars => HostedInv'
<1>1. (HostedTypeOK <=> HostedPlaces /\ HostedFlags)'
  BY DEF HostedTypeOK, HostedPlaces, HostedFlags
<1> QED
  BY <1>1, HostedParts, NextHostedFlags, NextHostedInv DEF HostedInv

(* A hosted run that returned left no instance, for any number of attempts,
   unless the creation's answer was lost, every deletion was refused or the
   cleanup ran out of its own time (cleanupInstance, run.go). *)
THEOREM HostedGoneHolds == HostedSpec => []HostedGone
<1>1. HostedInv => HostedGone
  BY DEF HostedInv
<1> QED
  BY <1>1, InitHosted, NextHosted, PTL DEF HostedSpec

-----------------------------------------------------------------------------
(***************************************************************************)
(* The instance tools.  Between its creation and its record an instance is *)
(* one that a call works on; a call of another kind answers for none.      *)
(***************************************************************************)
Creating == {"health", "record", "build", "setup", "template"}

(* Who works is on an instance that was given, with the files of its process
   read; what is to be removed from the registry is gone. *)
AtWork ==
  \A t \in Toolers :
    /\ tooling[t] # "idle" => images[HostOf[t]] # Unreadable
    /\ tooling[t] \in Creating \cup {"delete", "forget"} => working[t] \in given
    /\ tooling[t] = "forget" => working[t] \notin existing

(* What is neither recorded nor excused is being created. *)
Accounted ==
  \A m \in existing \ ledgerFile :
    excuses[m] # {} \/ \E t \in Toolers : working[t] = m /\ tooling[t] \in Creating

ToolsInv == ToolsTypeOK /\ AtWork /\ Accounted

(* The types, by the kind of the values. *)
MachineTypes == existing \subseteq given /\ given \subseteq Machines
LedgerTypes == ledger \in [Hosts -> SUBSET given] /\ ledgerFile \subseteq given
ImageTypes ==
  /\ images \in [Hosts -> (SUBSET given) \cup {Unreadable}]
  /\ imagesFile \in (SUBSET given) \cup {Unreadable}
CallPlaces ==
  /\ tooling \in [Toolers -> ToolSteps]
  /\ working \in [Toolers -> given \cup {NoMachine}]
  /\ remaining \in [Toolers -> SUBSET given]
ExcuseTypes == excuses \in [Machines -> SUBSET Reasons]

LEMMA ToolsParts ==
  ToolsTypeOK <=> MachineTypes /\ LedgerTypes /\ ImageTypes /\ CallPlaces /\ ExcuseTypes
  BY DEF ToolsTypeOK, MachineTypes, LedgerTypes, ImageTypes, CallPlaces, ExcuseTypes

LEMMA NotGiven == MachineTypes => NoMachine \notin given /\ Unreadable \notin SUBSET given
  BY ToolsAssumption DEF MachineTypes, Unreadable

LEMMA InitTools == ToolsInit => ToolsInv
<1> SUFFICES ASSUME ToolsInit PROVE ToolsInv
  OBVIOUS
<1>1. MachineTypes /\ LedgerTypes /\ ImageTypes
  BY DEF ToolsInit, MachineTypes, LedgerTypes, ImageTypes
<1>2. CallPlaces
  BY DEF ToolsInit, CallPlaces, ToolSteps
<1>3. ExcuseTypes
  BY DEF ToolsInit, ExcuseTypes
<1>4. AtWork /\ Accounted
  BY DEF ToolsInit, AtWork, Accounted, Creating
<1> QED
  BY <1>1, <1>2, <1>3, <1>4, ToolsParts DEF ToolsInv

-----------------------------------------------------------------------------
(* What the parts of the steps do. *)

LEMMA Excused ==
  ASSUME ExcuseTypes, NEW S, NEW reason \in Reasons, Excuse(S, reason)
  PROVE  /\ ExcuseTypes'
         /\ \A m \in Machines : excuses[m] \subseteq excuses'[m] /\ (m \in S => excuses'[m] # {})
  BY DEF ExcuseTypes, Excuse

LEMMA GoesOn ==
  ASSUME CallPlaces, NEW t \in Toolers, NEW step \in ToolSteps, NEW m, GoOn(t, step, m)
  PROVE  /\ tooling'[t] = step /\ working'[t] = m
         /\ \A u \in Toolers \ {t} : tooling'[u] = tooling[u] /\ working'[u] = working[u]
         /\ tooling' \in [Toolers -> ToolSteps]
         /\ \A G : working \in [Toolers -> G] /\ m \in G => working' \in [Toolers -> G]
  BY DEF CallPlaces, GoOn

(* Saving the registry loses no record that is not excused, but for those the
   process has removed itself. *)
LEMMA Saved ==
  ASSUME ExcuseTypes, LedgerTypes, MachineTypes, NEW h \in Hosts, NEW entries \in SUBSET given,
         NEW reason \in {"unsaved", "cleared"}, NEW S \in SUBSET Machines,
         SaveLedger(h, entries, reason, S)
  PROVE  /\ ExcuseTypes' /\ ledgerFile' \subseteq given
         /\ \A m \in Machines : excuses[m] \subseteq excuses'[m]
         /\ \A m \in S : excuses'[m] # {} \/ (reason = "unsaved" /\ ledgerFile' = entries)
         /\ \A m \in ledgerFile \ ledgerFile' : excuses'[m] # {} \/ m \in ledger[h] \ entries
<1>r. reason \in Reasons /\ "overwritten" \in Reasons
  BY DEF Reasons
<1>1. CASE ledgerFile' = entries
           /\ excuses' = [m \in Machines |-> excuses[m]
                \cup (IF m \in ledgerFile \ (entries \cup ledger[h]) THEN {"overwritten"} ELSE {})
                \cup (IF m \in S /\ reason = "cleared" THEN {reason} ELSE {})]
  <2>1. ExcuseTypes'
    BY <1>1, <1>r DEF ExcuseTypes
  <2>2. ledgerFile \subseteq Machines
    BY DEF LedgerTypes, MachineTypes
  <2> QED
    BY <1>1, <2>1, <2>2 DEF ExcuseTypes, LedgerTypes
<1>2. CASE Excuse(S, reason) /\ ledgerFile' = ledgerFile
  BY <1>2, <1>r, Excused DEF LedgerTypes
<1> QED
  BY <1>1, <1>2 DEF SaveLedger

(* A call creates an instance, or ends without. *)
LEMMA Created ==
  ASSUME ToolsInv, NEW t \in Toolers, NEW next \in {"health", "build"},
         tooling[t] = "idle", images[HostOf[t]] # Unreadable, CreateMachine(t, next),
         UNCHANGED <<ledger, ledgerFile, cache, remaining>>
  PROVE  ToolsInv'
<1>t. MachineTypes /\ LedgerTypes /\ ImageTypes /\ CallPlaces /\ ExcuseTypes /\ AtWork /\ Accounted
  BY ToolsParts DEF ToolsInv
<1>s. next \in ToolSteps /\ "idle" \in ToolSteps /\ next \in Creating /\ {"unanswered", "noAddress"} \subseteq Reasons
  BY DEF ToolSteps, Creating, Reasons
<1>1. CASE ToolEnds(t) /\ UNCHANGED <<cloud, excuses>>
  <2>1. /\ tooling'[t] = "idle" /\ tooling' \in [Toolers -> ToolSteps]
        /\ \A u \in Toolers \ {t} : tooling'[u] = tooling[u] /\ working'[u] = working[u]
        /\ working' \in [Toolers -> given \cup {NoMachine}]
    BY <1>1, <1>t, <1>s, GoesOn DEF ToolEnds, CallPlaces
  <2>2. MachineTypes' /\ LedgerTypes' /\ ImageTypes' /\ ExcuseTypes' /\ CallPlaces'
    BY <1>1, <1>t, <2>1 DEF MachineTypes, LedgerTypes, ImageTypes, ExcuseTypes, CallPlaces, cloud, cache
  <2>3. AtWork'
    BY <1>1, <1>t, <2>1 DEF AtWork, cloud, cache, Creating
  <2>4. Accounted'
    BY <1>1, <1>t, <2>1 DEF Accounted, cloud, Creating
  <2> QED
    BY <2>2, <2>3, <2>4 DEF ToolsInv, ToolsTypeOK, MachineTypes, LedgerTypes, ImageTypes, CallPlaces, ExcuseTypes
<1>2. ASSUME NEW m \in Machines \ given,
             given' = given \cup {m}, existing' = existing \cup {m},
             \/ GoOn(t, next, m) /\ UNCHANGED excuses
             \/ ToolEnds(t) /\ Excuse({m}, "unanswered")
             \/ ToolEnds(t) /\ Excuse({m}, "noAddress")
      PROVE  ToolsInv'
  <2>1. /\ \/ tooling'[t] = next /\ working'[t] = m
           \/ tooling'[t] = "idle" /\ excuses'[m] # {}
        /\ tooling' \in [Toolers -> ToolSteps]
        /\ \A u \in Toolers \ {t} : tooling'[u] = tooling[u] /\ working'[u] = working[u]
        /\ working' \in [Toolers -> given' \cup {NoMachine}]
        /\ ExcuseTypes' /\ \A n \in Machines : excuses[n] \subseteq excuses'[n]
    <3>1. working \in [Toolers -> given' \cup {NoMachine}] /\ m \in given' \cup {NoMachine}
      BY <1>2, <1>t DEF CallPlaces
    <3>2. CASE GoOn(t, next, m) /\ UNCHANGED excuses
      BY <1>t, <1>s, <3>1, <3>2, GoesOn DEF ExcuseTypes
    <3>3. CASE ToolEnds(t) /\ Excuse({m}, "unanswered")
      BY <1>t, <1>s, <3>1, <3>3, GoesOn, Excused DEF ToolEnds
    <3>4. CASE ToolEnds(t) /\ Excuse({m}, "noAddress")
      BY <1>t, <1>s, <3>1, <3>4, GoesOn, Excused DEF ToolEnds
    <3> QED
      BY <1>2, <3>2, <3>3, <3>4
  <2>2. MachineTypes' /\ LedgerTypes' /\ ImageTypes' /\ ExcuseTypes' /\ CallPlaces'
    <3>1. MachineTypes' /\ LedgerTypes'
      BY <1>2, <1>t DEF MachineTypes, LedgerTypes
    <3>2. ImageTypes'
      BY <1>2, <1>t DEF ImageTypes, cache
    <3>3. CallPlaces'
      BY <1>2, <1>t, <2>1 DEF CallPlaces
    <3> QED
      BY <2>1, <3>1, <3>2, <3>3
  <2>3. AtWork'
    <3>1. ASSUME NEW u \in Toolers, u # t PROVE AtWork!(u)'
      BY <1>2, <1>t, <2>1, <3>1 DEF AtWork, MachineTypes, cache
    <3> QED
      BY <1>2, <2>1, <3>1 DEF AtWork, cache, Creating
  <2>4. Accounted'
    <3>1. ASSUME NEW n \in existing' \ ledgerFile', n # m
          PROVE  excuses'[n] # {} \/ \E u \in Toolers : working'[u] = n /\ tooling'[u] \in Creating
      <4>1. n \in Machines /\ (excuses[n] # {} \/ \E u \in Toolers \ {t} : working[u] = n /\ tooling[u] \in Creating)
        BY <1>2, <1>t, <3>1 DEF Accounted, MachineTypes, Creating
      <4> QED
        BY <2>1, <4>1
    <3> QED
      BY <2>1, <3>1, <1>s DEF Accounted
  <2> QED
    BY <2>2, <2>3, <2>4 DEF ToolsInv, ToolsTypeOK, MachineTypes, LedgerTypes, ImageTypes, CallPlaces, ExcuseTypes
<1> QED
  BY <1>1, <1>2 DEF CreateMachine

(* A step of one call that creates nothing: what it answers for. *)
LEMMA OthersAnswer ==
  ASSUME ToolsInv, NEW t \in Toolers,
         given' = given, existing' \subseteq existing,
         \A u \in Toolers \ {t} : tooling'[u] = tooling[u] /\ working'[u] = working[u],
         \A u \in Toolers : images[HostOf[u]] # Unreadable => images'[HostOf[u]] # Unreadable,
         \A m \in Machines : excuses[m] \subseteq excuses'[m],
         tooling'[t] # "idle" => tooling[t] # "idle" \/ images[HostOf[t]] # Unreadable,
         tooling'[t] \in Creating \cup {"delete", "forget"} => working'[t] \in given,
         tooling'[t] = "forget" => working'[t] \notin existing',
         \A m \in ledgerFile \ ledgerFile' : m \in existing' => excuses'[m] # {},
         tooling[t] \in Creating =>
           \/ tooling'[t] \in Creating /\ working'[t] = working[t]
           \/ working[t] \notin existing' \/ working[t] \in ledgerFile' \/ excuses'[working[t]] # {}
  PROVE  AtWork' /\ Accounted'
<1>t. MachineTypes /\ AtWork /\ Accounted
  BY ToolsParts DEF ToolsInv
<1>1. AtWork'
  BY <1>t DEF AtWork, Creating
<1>2. ASSUME NEW m \in existing', m \notin ledgerFile', excuses'[m] = {}
      PROVE  \E u \in Toolers : working'[u] = m /\ tooling'[u] \in Creating
  <2>1. m \in existing /\ m \in Machines /\ excuses[m] = {} /\ m \notin ledgerFile
    BY <1>t, <1>2 DEF MachineTypes
  <2>2. PICK u \in Toolers : working[u] = m /\ tooling[u] \in Creating
    BY <1>t, <2>1 DEF Accounted
  <2>3. CASE u = t
    BY <1>2, <2>2, <2>3
  <2>4. CASE u # t
    BY <2>2, <2>4
  <2> QED
    BY <2>3, <2>4
<1> QED
  BY <1>1, <1>2 DEF Accounted

LEMMA ToolsPartsNext ==
  ASSUME MachineTypes', LedgerTypes', ImageTypes', CallPlaces', ExcuseTypes', AtWork', Accounted'
  PROVE  ToolsInv'
  BY DEF ToolsInv, ToolsTypeOK, MachineTypes, LedgerTypes, ImageTypes, CallPlaces, ExcuseTypes

(* The end of a call, or its next step, on an instance that was given. *)
LEMMA PlacesKept ==
  ASSUME CallPlaces, NEW t \in Toolers, NEW step \in ToolSteps, NEW m \in given \cup {NoMachine},
         GoOn(t, step, m), given' = given, remaining' \in [Toolers -> SUBSET given]
  PROVE  /\ CallPlaces' /\ tooling'[t] = step /\ working'[t] = m
         /\ \A u \in Toolers \ {t} : tooling'[u] = tooling[u] /\ working'[u] = working[u]
<1>1. working \in [Toolers -> given \cup {NoMachine}]
  BY DEF CallPlaces
<1> QED
  BY <1>1, GoesOn DEF CallPlaces

LEMMA StepHealth ==
  ASSUME ToolsInv, NEW t \in Toolers, CreateHealth(t) \/ BuildSetup(t)
  PROVE  ToolsInv'
<1>t. MachineTypes /\ LedgerTypes /\ ImageTypes /\ CallPlaces /\ ExcuseTypes /\ AtWork /\ Accounted
  BY ToolsParts DEF ToolsInv
<1>1. /\ tooling[t] \in {"health", "build", "setup"} /\ UNCHANGED <<ledger, ledgerFile, cache, remaining>>
      /\ \/ \E step \in {"record", "setup", "template"} : GoOn(t, step, working[t]) /\ UNCHANGED <<cloud, excuses>>
         \/ DropMachine(t)
  BY DEF CreateHealth, BuildSetup
<1>2. working[t] \in given
  BY <1>t, <1>1 DEF AtWork, Creating
<1>3. LedgerTypes' /\ ImageTypes' /\ given' = given
  BY <1>1, <1>t DEF DropMachine, LedgerTypes, ImageTypes, cloud, cache
<1>4. \A u \in Toolers : images[HostOf[u]] # Unreadable => images'[HostOf[u]] # Unreadable
  BY <1>1 DEF cache
<1>r. remaining' \in [Toolers -> SUBSET given]
  BY <1>1, <1>t DEF CallPlaces
<1>5. ASSUME NEW step \in {"record", "setup", "template"}, GoOn(t, step, working[t]), UNCHANGED <<cloud, excuses>>
      PROVE  ToolsInv'
  <2>1. step \in ToolSteps /\ step \in Creating
    BY DEF ToolSteps, Creating
  <2>2. CallPlaces' /\ tooling'[t] = step /\ working'[t] = working[t]
        /\ \A u \in Toolers \ {t} : tooling'[u] = tooling[u] /\ working'[u] = working[u]
    BY <1>2, <1>3, <1>5, <1>r, <1>t, <2>1, PlacesKept
  <2>3. MachineTypes' /\ ExcuseTypes'
    BY <1>5, <1>t DEF MachineTypes, ExcuseTypes, cloud
  <2>4. AtWork' /\ Accounted'
    BY <1>1, <1>2, <1>4, <1>5, <2>1, <2>2, OthersAnswer DEF cloud, cache
  <2> QED
    BY <1>3, <2>2, <2>3, <2>4, ToolsPartsNext
<1>6. CASE DropMachine(t)
  <2>1. "idle" \in ToolSteps /\ "refused" \in Reasons
    BY DEF ToolSteps, Reasons
  <2>2. CallPlaces' /\ tooling'[t] = "idle" /\ working'[t] = NoMachine
        /\ \A u \in Toolers \ {t} : tooling'[u] = tooling[u] /\ working'[u] = working[u]
    BY <1>3, <1>6, <1>r, <1>t, <2>1, PlacesKept DEF DropMachine, ToolEnds
  <2>3. /\ MachineTypes' /\ ExcuseTypes' /\ existing' \subseteq existing
        /\ \A m \in Machines : excuses[m] \subseteq excuses'[m]
        /\ working[t] \notin existing' \/ excuses'[working[t]] # {}
    <3>1. CASE existing' = existing \ {working[t]} /\ UNCHANGED excuses
      BY <3>1, <1>3, <1>t DEF MachineTypes, ExcuseTypes
    <3>2. CASE Excuse({working[t]}, "refused") /\ UNCHANGED existing
      BY <3>2, <1>2, <1>3, <1>t, <2>1, Excused DEF MachineTypes
    <3> QED
      BY <1>6, <3>1, <3>2 DEF DropMachine
  <2>4. tooling'[t] \notin Creating \cup {"delete", "forget"}
    BY <2>2 DEF Creating
  <2>5. AtWork' /\ Accounted'
    BY <1>1, <1>3, <1>4, <2>2, <2>3, <2>4, OthersAnswer
  <2> QED
    BY <1>3, <2>2, <2>3, <2>5, ToolsPartsNext
<1> QED
  BY <1>1, <1>5, <1>6

LEMMA StepRecord ==
  ASSUME ToolsInv, NEW t \in Toolers, RecordMachine(t)
  PROVE  ToolsInv'
<1>t. MachineTypes /\ LedgerTypes /\ ImageTypes /\ CallPlaces /\ ExcuseTypes /\ AtWork /\ Accounted
  BY ToolsParts DEF ToolsInv
<1> DEFINE h == HostOf[t]
           entries == ledger[h] \cup {working[t]}
<1>1. /\ tooling[t] = "record" /\ ledger' = [ledger EXCEPT ![h] = entries]
      /\ SaveLedger(h, entries, "unsaved", {working[t]})
      /\ GoOn(t, "idle", NoMachine) /\ UNCHANGED <<cloud, cache, remaining>>
  BY DEF RecordMachine, ToolEnds
<1>h. h \in Hosts /\ "idle" \in ToolSteps
  BY ToolsAssumption DEF ToolSteps
<1>2. working[t] \in given /\ working[t] \in Machines /\ entries \in SUBSET given
  BY <1>t, <1>h, <1>1 DEF AtWork, Creating, MachineTypes, LedgerTypes
<1> HIDE DEF h, entries
<1>3. given' = given /\ existing' = existing /\ remaining' = remaining /\ images' = images /\ imagesFile' = imagesFile
  BY <1>1 DEF cloud, cache
<1>4. CallPlaces' /\ tooling'[t] = "idle" /\ working'[t] = NoMachine
      /\ \A u \in Toolers \ {t} : tooling'[u] = tooling[u] /\ working'[u] = working[u]
  <2>1. remaining' \in [Toolers -> SUBSET given]
    BY <1>3, <1>t DEF CallPlaces
  <2> QED
    BY <1>1, <1>3, <1>h, <1>t, <2>1, PlacesKept
<1>5. /\ ExcuseTypes' /\ ledgerFile' \subseteq given
      /\ \A m \in Machines : excuses[m] \subseteq excuses'[m]
      /\ excuses'[working[t]] # {} \/ ledgerFile' = entries
      /\ \A m \in ledgerFile \ ledgerFile' : excuses'[m] # {} \/ m \in ledger[h] \ entries
  <2>1. PICK S \in SUBSET Machines : S = {working[t]}
    BY <1>2
  <2>2. SaveLedger(h, entries, "unsaved", S)
    BY <1>1, <2>1
  <2>3. /\ ExcuseTypes' /\ ledgerFile' \subseteq given
        /\ \A m \in Machines : excuses[m] \subseteq excuses'[m]
        /\ \A m \in S : excuses'[m] # {} \/ ledgerFile' = entries
        /\ \A m \in ledgerFile \ ledgerFile' : excuses'[m] # {} \/ m \in ledger[h] \ entries
    BY <1>2, <1>h, <1>t, <2>2, Saved
  <2> QED
    BY <2>1, <2>3
<1>6. ledger[h] \ entries = {} /\ working[t] \in entries
  BY DEF entries
<1>7. LedgerTypes' /\ MachineTypes' /\ ImageTypes'
  BY <1>1, <1>2, <1>3, <1>5, <1>t DEF LedgerTypes, MachineTypes, ImageTypes
<1>8. tooling'[t] \notin Creating \cup {"delete", "forget"}
  BY <1>4 DEF Creating
<1>9. AtWork' /\ Accounted'
  BY <1>3, <1>4, <1>5, <1>6, <1>8, OthersAnswer
<1> QED
  BY <1>4, <1>5, <1>7, <1>9, ToolsPartsNext

LEMMA StepKeep ==
  ASSUME ToolsInv, NEW t \in Toolers, KeepTemplate(t)
  PROVE  ToolsInv'
<1>t. MachineTypes /\ LedgerTypes /\ ImageTypes /\ CallPlaces /\ ExcuseTypes /\ AtWork /\ Accounted
  BY ToolsParts DEF ToolsInv
<1> DEFINE h == HostOf[t]
<1>1. PICK known \in SUBSET (images[h] \cup {working[t]}) :
        /\ tooling[t] = "template" /\ images' = [images EXCEPT ![h] = known]
        /\ imagesFile' \in {imagesFile, known, Unreadable}
        /\ Excuse({working[t]}, "template")
        /\ GoOn(t, "idle", NoMachine) /\ UNCHANGED <<cloud, ledger, ledgerFile, remaining>>
  <2>1. PICK earlier \in {{}} \cup {{m} : m \in images[h]} :
          /\ tooling[t] = "template"
          /\ images' = [images EXCEPT ![h] = (images[h] \ earlier) \cup {working[t]}]
          /\ imagesFile' \in {imagesFile, (images[h] \ earlier) \cup {working[t]}, Unreadable}
          /\ Excuse({working[t]}, "template")
          /\ GoOn(t, "idle", NoMachine) /\ UNCHANGED <<cloud, ledger, ledgerFile, remaining>>
    BY DEF KeepTemplate, ToolEnds
  <2>2. (images[h] \ earlier) \cup {working[t]} \in SUBSET (images[h] \cup {working[t]})
    OBVIOUS
  <2> QED
    BY <2>1, <2>2
<1>h. h \in Hosts /\ "idle" \in ToolSteps /\ "template" \in Reasons
  BY ToolsAssumption DEF ToolSteps, Reasons
<1>2. working[t] \in given /\ working[t] \in Machines /\ images[h] # Unreadable
  BY <1>t, <1>1 DEF AtWork, Creating, MachineTypes
<1>n. known \in SUBSET given /\ known # Unreadable
  <2>1. images[h] \in SUBSET given
    BY <1>h, <1>2, <1>t DEF ImageTypes
  <2>2. known \in SUBSET given
    BY <1>2, <2>1
  <2> QED
    BY <1>t, <2>2, NotGiven
<1> HIDE DEF h
<1>3. given' = given /\ existing' = existing /\ remaining' = remaining /\ ledger' = ledger /\ ledgerFile' = ledgerFile
  BY <1>1 DEF cloud
<1>4. CallPlaces' /\ tooling'[t] = "idle" /\ working'[t] = NoMachine
      /\ \A u \in Toolers \ {t} : tooling'[u] = tooling[u] /\ working'[u] = working[u]
  <2>1. remaining' \in [Toolers -> SUBSET given]
    BY <1>3, <1>t DEF CallPlaces
  <2> QED
    BY <1>1, <1>3, <1>h, <1>t, <2>1, PlacesKept
<1>5. /\ ExcuseTypes' /\ excuses'[working[t]] # {}
      /\ \A m \in Machines : excuses[m] \subseteq excuses'[m]
  BY <1>1, <1>2, <1>h, <1>t, Excused
<1>6. ImageTypes'
  BY <1>1, <1>3, <1>h, <1>n, <1>t DEF ImageTypes
<1>7. \A u \in Toolers : images[HostOf[u]] # Unreadable => images'[HostOf[u]] # Unreadable
  <2>1. \A u \in Toolers : HostOf[u] \in Hosts
    BY ToolsAssumption
  <2> QED
    BY <1>1, <1>h, <1>n, <1>t, <2>1 DEF ImageTypes
<1>8. LedgerTypes' /\ MachineTypes'
  BY <1>3, <1>t DEF LedgerTypes, MachineTypes
<1>9. tooling'[t] \notin Creating \cup {"delete", "forget"}
  BY <1>4 DEF Creating
<1>10. AtWork' /\ Accounted'
  BY <1>3, <1>4, <1>5, <1>7, <1>9, OthersAnswer
<1> QED
  BY <1>4, <1>5, <1>6, <1>8, <1>10, ToolsPartsNext

(* The steps of the deletions before the registry is written. *)
LEMMA StepDelete ==
  ASSUME ToolsInv, NEW t \in Toolers, StartDelete(t) \/ DeleteMachine(t) \/ StartDeleteAll(t) \/ DeleteOne(t)
  PROVE  ToolsInv'
<1>t. MachineTypes /\ LedgerTypes /\ ImageTypes /\ CallPlaces /\ ExcuseTypes /\ AtWork /\ Accounted
  BY ToolsParts DEF ToolsInv
<1>h. HostOf[t] \in Hosts /\ {"idle", "delete", "forget", "deleteAll"} \subseteq ToolSteps
  BY ToolsAssumption DEF ToolSteps
<1>1. /\ given' = given /\ existing' \subseteq existing
      /\ UNCHANGED <<ledger, ledgerFile, images, imagesFile, excuses>>
      /\ tooling[t] \notin Creating
  BY DEF StartDelete, DeleteMachine, StartDeleteAll, DeleteOne, HasTools, cloud, cache, Creating
<1>2. remaining' \in [Toolers -> SUBSET given]
  BY <1>h, <1>t DEF StartDelete, DeleteMachine, StartDeleteAll, DeleteOne, CallPlaces, LedgerTypes
<1>3. \/ \E m \in ledger[HostOf[t]] : GoOn(t, "delete", m) /\ images[HostOf[t]] # Unreadable
      \/ /\ tooling[t] = "delete" /\ GoOn(t, "forget", working[t])
         /\ existing' = existing \ {working[t]}
      \/ GoOn(t, "idle", NoMachine)
      \/ GoOn(t, "deleteAll", NoMachine) /\ images[HostOf[t]] # Unreadable
      \/ tooling[t] = "deleteAll" /\ UNCHANGED <<tooling, working>>
  BY DEF StartDelete, DeleteMachine, StartDeleteAll, DeleteOne, HasTools, ToolEnds
<1>4. /\ CallPlaces'
      /\ \A u \in Toolers \ {t} : tooling'[u] = tooling[u] /\ working'[u] = working[u]
      /\ tooling'[t] # "idle" => tooling[t] # "idle" \/ images[HostOf[t]] # Unreadable
      /\ tooling'[t] \in Creating \cup {"delete", "forget"} => working'[t] \in given
      /\ tooling'[t] = "forget" => working'[t] \notin existing'
  <2>1. ASSUME NEW m \in ledger[HostOf[t]], GoOn(t, "delete", m), images[HostOf[t]] # Unreadable
        PROVE  <1>4
    BY <1>1, <1>2, <1>h, <1>t, <2>1, PlacesKept DEF LedgerTypes
  <2>2. CASE /\ tooling[t] = "delete" /\ GoOn(t, "forget", working[t])
             /\ existing' = existing \ {working[t]}
    <3>1. working[t] \in given
      BY <1>t, <2>2 DEF AtWork
    <3> QED
      BY <1>1, <1>2, <1>h, <1>t, <2>2, <3>1, PlacesKept
  <2>3. ASSUME NEW step \in {"idle", "deleteAll"}, GoOn(t, step, NoMachine),
               step = "deleteAll" => images[HostOf[t]] # Unreadable
        PROVE  <1>4
    BY <1>1, <1>2, <1>h, <1>t, <2>3, PlacesKept DEF Creating
  <2>4. CASE tooling[t] = "deleteAll" /\ UNCHANGED <<tooling, working>>
    BY <1>1, <1>2, <1>t, <2>4 DEF CallPlaces, Creating
  <2> QED
    BY <1>3, <2>1, <2>2, <2>3, <2>4
<1>5. LedgerTypes' /\ MachineTypes' /\ ImageTypes' /\ ExcuseTypes'
  BY <1>1, <1>t DEF LedgerTypes, MachineTypes, ImageTypes, ExcuseTypes
<1>6. AtWork' /\ Accounted'
  BY <1>1, <1>4, OthersAnswer
<1> QED
  BY <1>4, <1>5, <1>6, ToolsPartsNext

(* Forgetting one instance, or all. *)
LEMMA StepForget ==
  ASSUME ToolsInv, NEW t \in Toolers, ForgetMachine(t) \/ ClearLedger(t)
  PROVE  ToolsInv'
<1>t. MachineTypes /\ LedgerTypes /\ ImageTypes /\ CallPlaces /\ ExcuseTypes /\ AtWork /\ Accounted
  BY ToolsParts DEF ToolsInv
<1> DEFINE h == HostOf[t]
<1>h. h \in Hosts /\ "idle" \in ToolSteps
  BY ToolsAssumption DEF ToolSteps
<1>1. PICK entries \in SUBSET given :
        /\ ledger' = [ledger EXCEPT ![h] = entries]
        /\ GoOn(t, "idle", NoMachine) /\ UNCHANGED <<cloud, cache, remaining>>
        /\ tooling[t] \in {"forget", "deleteAll"}
        /\ \/ /\ entries = ledger[h] \ {working[t]} /\ tooling[t] = "forget"
              /\ SaveLedger(h, entries, "unsaved", {})
           \/ entries = {} /\ SaveLedger(h, entries, "cleared", ledger[h])
  <2>1. ledger[h] \ {working[t]} \in SUBSET given /\ {} \in SUBSET given
    BY <1>h, <1>t DEF LedgerTypes
  <2> QED
    BY <2>1 DEF ForgetMachine, ClearLedger, ToolEnds
<1> HIDE DEF h
<1>2. given' = given /\ existing' = existing /\ remaining' = remaining /\ images' = images /\ imagesFile' = imagesFile
  BY <1>1 DEF cloud, cache
<1>3. CallPlaces' /\ tooling'[t] = "idle" /\ working'[t] = NoMachine
      /\ \A u \in Toolers \ {t} : tooling'[u] = tooling[u] /\ working'[u] = working[u]
  <2>1. remaining' \in [Toolers -> SUBSET given]
    BY <1>2, <1>t DEF CallPlaces
  <2> QED
    BY <1>1, <1>2, <1>h, <1>t, <2>1, PlacesKept
<1>4. /\ ExcuseTypes' /\ ledgerFile' \subseteq given
      /\ \A m \in Machines : excuses[m] \subseteq excuses'[m]
      /\ \A m \in ledgerFile \ ledgerFile' : m \in existing' => excuses'[m] # {}
  <2>1. CASE /\ entries = ledger[h] \ {working[t]} /\ tooling[t] = "forget"
             /\ SaveLedger(h, entries, "unsaved", {})
    <3>1. {} \in SUBSET Machines /\ working[t] \notin existing
      BY <1>t, <2>1 DEF AtWork
    <3>2. /\ ExcuseTypes' /\ ledgerFile' \subseteq given
          /\ \A m \in Machines : excuses[m] \subseteq excuses'[m]
          /\ \A m \in ledgerFile \ ledgerFile' : excuses'[m] # {} \/ m \in ledger[h] \ entries
      BY <1>1, <1>h, <1>t, <2>1, <3>1, Saved
    <3> QED
      BY <1>2, <2>1, <3>1, <3>2
  <2>2. CASE entries = {} /\ SaveLedger(h, entries, "cleared", ledger[h])
    <3>1. PICK S \in SUBSET Machines : S = ledger[h]
      BY <1>h, <1>t DEF LedgerTypes, MachineTypes
    <3>2. SaveLedger(h, entries, "cleared", S)
      BY <2>2, <3>1
    <3>3. /\ ExcuseTypes' /\ ledgerFile' \subseteq given
          /\ \A m \in Machines : excuses[m] \subseteq excuses'[m]
          /\ \A m \in S : excuses'[m] # {}
          /\ \A m \in ledgerFile \ ledgerFile' : excuses'[m] # {} \/ m \in ledger[h] \ entries
      BY <1>h, <1>t, <3>2, Saved
    <3> QED
      BY <3>1, <3>3
  <2> QED
    BY <1>1, <2>1, <2>2
<1>5. LedgerTypes' /\ MachineTypes' /\ ImageTypes'
  BY <1>1, <1>2, <1>4, <1>t DEF LedgerTypes, MachineTypes, ImageTypes
<1>6. tooling'[t] \notin Creating \cup {"delete", "forget"} /\ tooling[t] \notin Creating
  BY <1>1, <1>3 DEF Creating
<1>7. AtWork' /\ Accounted'
  BY <1>2, <1>3, <1>4, <1>6, OthersAnswer
<1> QED
  BY <1>3, <1>4, <1>5, <1>7, ToolsPartsNext

(* A process dies with its calls. *)
LEMMA StepRestart ==
  ASSUME ToolsInv, NEW h \in Hosts, RestartHost(h)
  PROVE  ToolsInv'
<1>t. MachineTypes /\ LedgerTypes /\ ImageTypes /\ CallPlaces /\ ExcuseTypes /\ AtWork /\ Accounted
  BY ToolsParts DEF ToolsInv
<1> DEFINE calls == {t \in Toolers : HostOf[t] = h}
<1>1. /\ ledger' = [ledger EXCEPT ![h] = ledgerFile] /\ ledgerFile' = ledgerFile
      /\ existing' = existing /\ given' = given
      /\ images' = [images EXCEPT ![h] = imagesFile']
      /\ \A t \in calls : tooling'[t] = "idle" /\ working'[t] = NoMachine
      /\ \A t \in Toolers \ calls : tooling'[t] = tooling[t] /\ working'[t] = working[t]
  BY DEF RestartHost, cloud
<1>2. imagesFile' \in {imagesFile, Unreadable}
  BY DEF RestartHost
<1>3. PICK S : Excuse(S, "crashed") /\ \A t \in calls : working[t] \in S
  BY DEF RestartHost
<1>4. CallPlaces'
  <2>1. tooling' \in [Toolers -> ToolSteps]
    BY <1>t DEF RestartHost, CallPlaces, ToolSteps
  <2>2. working' \in [Toolers -> given \cup {NoMachine}]
    BY <1>t DEF RestartHost, CallPlaces
  <2>3. remaining' \in [Toolers -> SUBSET given]
    BY <1>t DEF RestartHost, CallPlaces
  <2> QED
    BY <1>1, <2>1, <2>2, <2>3 DEF CallPlaces
<1>5. MachineTypes' /\ LedgerTypes'
  BY <1>1, <1>t DEF MachineTypes, LedgerTypes
<1>6. ImageTypes'
  BY <1>1, <1>2, <1>t DEF ImageTypes
<1>7. ExcuseTypes' /\ \A m \in Machines : excuses[m] \subseteq excuses'[m] /\ (m \in S => excuses'[m] # {})
  <2>1. "crashed" \in Reasons
    BY DEF Reasons
  <2> QED
    BY <1>3, <1>t, <2>1, Excused
<1>8. AtWork'
  <2>1. \A t \in Toolers \ calls : images'[HostOf[t]] = images[HostOf[t]]
    BY <1>1, <1>t, ToolsAssumption DEF ImageTypes
  <2> QED
    BY <1>1, <1>t, <2>1 DEF AtWork, Creating
<1>9. Accounted'
  <2>1. ASSUME NEW m \in existing, m \notin ledgerFile, excuses'[m] = {}
        PROVE  \E t \in Toolers : working'[t] = m /\ tooling'[t] \in Creating
    <3>1. m \in Machines /\ excuses[m] = {} /\ m \notin S
      BY <1>7, <1>t, <2>1 DEF MachineTypes
    <3>2. PICK t \in Toolers : working[t] = m /\ tooling[t] \in Creating
      BY <1>t, <2>1, <3>1 DEF Accounted
    <3>3. t \notin calls
      BY <1>3, <3>1, <3>2
    <3> QED
      BY <1>1, <3>2, <3>3
  <2> QED
    BY <1>1, <2>1 DEF Accounted
<1> QED
  BY <1>4, <1>5, <1>6, <1>7, <1>8, <1>9, ToolsPartsNext

LEMMA NextTools == ToolsInv /\ [ToolsNext]_toolsVars => ToolsInv'
<1> SUFFICES ASSUME ToolsInv, [ToolsNext]_toolsVars PROVE ToolsInv'
  OBVIOUS
<1>1. ASSUME NEW t \in Toolers, StartCreate(t) PROVE ToolsInv'
  BY <1>1, Created DEF StartCreate, HasTools
<1>2. ASSUME NEW t \in Toolers, StartBuild(t) PROVE ToolsInv'
  BY <1>2, Created DEF StartBuild, HasTools
<1>3. ASSUME NEW t \in Toolers, CreateHealth(t) \/ BuildSetup(t) PROVE ToolsInv'
  BY <1>3, StepHealth
<1>4. ASSUME NEW t \in Toolers, RecordMachine(t) PROVE ToolsInv'
  BY <1>4, StepRecord
<1>5. ASSUME NEW t \in Toolers, KeepTemplate(t) PROVE ToolsInv'
  BY <1>5, StepKeep
<1>6. ASSUME NEW t \in Toolers,
             StartDelete(t) \/ DeleteMachine(t) \/ StartDeleteAll(t) \/ DeleteOne(t)
      PROVE  ToolsInv'
  BY <1>6, StepDelete
<1>7. ASSUME NEW t \in Toolers, ForgetMachine(t) \/ ClearLedger(t) PROVE ToolsInv'
  BY <1>7, StepForget
<1>8. ASSUME NEW h \in Hosts, RestartHost(h) PROVE ToolsInv'
  BY <1>8, StepRestart
<1>9. CASE UNCHANGED toolsVars
  <2>1. ToolsTypeOK'
    BY <1>9 DEF toolsVars, ToolsInv, ToolsTypeOK
  <2>2. AtWork' /\ Accounted'
    BY <1>9 DEF toolsVars, ToolsInv, AtWork, Accounted
  <2> QED
    BY <2>1, <2>2 DEF ToolsInv
<1> QED
  BY <1>1, <1>2, <1>3, <1>4, <1>5, <1>6, <1>7, <1>8, <1>9 DEF ToolsNext

(* An instance that runs outside the registry's file is being worked on or has
   its reason, for any number of processes, calls and instances, wherever a
   process dies or a file cannot be written (the ukc tools and registry.go). *)
THEOREM NothingForgottenHolds == ToolsSpec => []NothingForgotten
<1>1. ToolsInv => NothingForgotten
  BY DEF ToolsInv, Accounted, NothingForgotten
<1> QED
  BY <1>1, InitTools, NextTools, PTL DEF ToolsSpec
=============================================================================
