--------------------------- MODULE PermissionRules ---------------------------
(***************************************************************************)
(* The permission engines of several processes over one rules file.  An    *)
(* engine reads the file once, when its process starts, ignoring what it   *)
(* cannot read; "always allow" adds a rule to its own list and writes that *)
(* list over the file, through a temporary file all processes share.  The  *)
(* user may edit the file, and any process may be killed between two       *)
(* steps.  Every step of a save may fail, which nobody is told.  A file    *)
(* that is being written is an inode: another process may rename it, or    *)
(* write into it as well.                                                  *)
(***************************************************************************)
EXTENDS Naturals, FiniteSets

CONSTANTS
  Engines,         \* the processes
  Tools,           \* tools that need permission
  Mode,            \* of each engine: default (plan asks for several calls at once), bypass or allowlist
  Allowed, Denied, \* settings.AllowedTools and DeniedTools
  PresetAllow, PresetDeny, \* unikernelAllowTools and unikernelDenyTools
  Approved,        \* the tools and clients approved for a governed job; {} is no list
  Blocked,         \* tools that Warden refuses
  MaxRules,        \* bound: rules the user makes by editing the file
  MaxAlive         \* bound: processes that are alive at one time

ASSUME PermissionAssumption ==
  /\ Mode \in [Engines -> {"default", "bypass", "allowlist"}]
  /\ Allowed \subseteq Tools /\ Denied \subseteq Tools /\ Blocked \subseteq Tools
  /\ PresetAllow \subseteq Tools /\ PresetDeny \subseteq Tools
  /\ MaxRules \in Nat /\ MaxAlive \in Nat \ {0}

VARIABLES
  file,     \* permissions.json: a set of rules, or Torn
  tmp,      \* permissions.json.tmp: the same, or NoFile
  phase,    \* of each process: off, on, truncate, write, rename or over
  writesTo, \* the file whose inode a process has open: tmp, file, or none
  rules,    \* Engine.rules
  asking,   \* calls whose prompt is open
  ran,      \* calls of living processes that were let through
  meant,    \* history variable: the rules the user made, by answer or by editing
  disturbed, \* history variable: processes overlapped with each other or with an edit, or one could not read the file
  unsaved,  \* history variable, of each process: rules made by answer since its last save that did not fail
  saveFailed \* history variable: the processes whose last save failed

permVars == <<file, tmp, phase, writesTo, rules, asking, ran, meant, disturbed, unsaved, saveFailed>>

Torn == {[tool |-> "torn", kind |-> "torn"]}
NoFile == {[tool |-> "none", kind |-> "none"]}
Allow(t) == [tool |-> t, kind |-> "allow"]
Deny(t) == [tool |-> t, kind |-> "deny"]
Rules == {Allow(t) : t \in Tools} \cup {Deny(t) : t \in Tools}

Alive == {e \in Engines : phase[e] \notin {"off", "over"}}

PermInit ==
  /\ file = {} /\ tmp = NoFile
  /\ phase = [e \in Engines |-> "off"] /\ writesTo = [e \in Engines |-> "none"]
  /\ rules = [e \in Engines |-> {}]
  /\ asking = {} /\ ran = {} /\ meant = {} /\ disturbed = FALSE
  /\ unsaved = [e \in Engines |-> {}] /\ saveFailed = {}

-----------------------------------------------------------------------------
(* What the settings allow and deny. *)

(* MergeUnikernelPreset: the preset and the settings together, deny first. *)
MergedDeny == PresetDeny \cup Denied
MergedAllow == (PresetAllow \cup Allowed) \ MergedDeny

IntersectWithApproved(allow) == IF Approved = {} THEN allow ELSE allow \cap Approved

AllowedTools(e) == IF Mode[e] = "allowlist" THEN IntersectWithApproved(MergedAllow) ELSE Allowed
DeniedTools(e) == IF Mode[e] = "allowlist" THEN MergedDeny ELSE Denied

(* Check and FastDecision: the same order of questions. *)
Decision(e, t) ==
  IF Mode[e] = "bypass" THEN "run"
  ELSE IF t \in Blocked \/ t \in DeniedTools(e) \/ Deny(t) \in rules[e] THEN "refuse"
  ELSE IF t \in AllowedTools(e) \/ Allow(t) \in rules[e] THEN "run"
  ELSE IF Mode[e] = "allowlist" THEN "refuse" ELSE "ask"

-----------------------------------------------------------------------------
(* NewEngine.  What cannot be read or parsed counts as no rules.  The preset's
   engine has no rules file. *)
Open(e) ==
  /\ Cardinality(Alive) < MaxAlive
  /\ phase[e] = "off" /\ phase' = [phase EXCEPT ![e] = "on"]
  /\ \E read \in {file, {}} :
       /\ rules' = [rules EXCEPT ![e] = IF read = Torn \/ Mode[e] = "allowlist" THEN {} ELSE read]
       /\ disturbed' = (disturbed \/ Alive # {} \/ read # file)
  /\ UNCHANGED <<file, tmp, writesTo, asking, ran, meant, unsaved, saveFailed>>

(* Check and FastDecision.  They wait while a save has the engine's lock. *)
Call(e, t) ==
  /\ phase[e] = "on" /\ <<e, t>> \notin asking \cup ran
  /\ \/ Decision(e, t) = "run" /\ ran' = ran \cup {<<e, t>>} /\ UNCHANGED asking
     \/ Decision(e, t) = "ask" /\ asking' = asking \cup {<<e, t>>} /\ UNCHANGED ran
  /\ UNCHANGED <<file, tmp, phase, writesTo, rules, meant, disturbed, unsaved, saveFailed>>

(* The user allows or denies the one call. *)
Answer(e, t) ==
  /\ <<e, t>> \in asking /\ phase[e] # "over" /\ asking' = asking \ {<<e, t>>}
  /\ ran' \in {ran, ran \cup {<<e, t>>}}
  /\ UNCHANGED <<file, tmp, phase, writesTo, rules, meant, disturbed, unsaved, saveFailed>>

(* Always: addRule, which keeps the engine's lock until the file is written. *)
AnswerAlways(e, t) ==
  /\ <<e, t>> \in asking /\ phase[e] = "on" /\ asking' = asking \ {<<e, t>>}
  /\ ran' = ran \cup {<<e, t>>} /\ meant' = meant \cup {Allow(t)}
  /\ rules' = [rules EXCEPT ![e] = @ \cup {Allow(t)}]
  /\ IF Allow(t) \in rules[e]
     THEN UNCHANGED <<phase, unsaved>>
     ELSE /\ phase' = [phase EXCEPT ![e] = "truncate"]
          /\ unsaved' = [unsaved EXCEPT ![e] = @ \cup {Allow(t)}]
  /\ UNCHANGED <<file, tmp, writesTo, disturbed, saveFailed>>

(* saveLocked returns an error, which addRule drops: the rule stays in memory,
   the temporary file as it is, and the next save takes the rule along. *)
SaveFails(e) ==
  /\ phase' = [phase EXCEPT ![e] = "on"] /\ writesTo' = [writesTo EXCEPT ![e] = "none"]
  /\ saveFailed' = saveFailed \cup {e} /\ UNCHANGED unsaved

(* Fault: the rules are written in place. *)
TruncateInPlace(e) ==
  /\ phase[e] = "truncate" /\ phase' = [phase EXCEPT ![e] = "write"]
  /\ file' = Torn /\ writesTo' = [writesTo EXCEPT ![e] = "file"]
  /\ UNCHANGED <<tmp, rules, asking, ran, meant, disturbed, unsaved, saveFailed>>

(* os.WriteFile empties the temporary file, unless it or its directory cannot be
   opened, and then writes it. *)
Truncate(e) ==
  /\ phase[e] = "truncate"
  /\ \/ /\ phase' = [phase EXCEPT ![e] = "write"] /\ tmp' = Torn
        /\ writesTo' = [writesTo EXCEPT ![e] = "tmp"] /\ UNCHANGED <<unsaved, saveFailed>>
     \/ SaveFails(e) /\ UNCHANGED tmp
  /\ UNCHANGED <<file, rules, asking, ran, meant, disturbed>>

(* What two processes write into one inode may be a mixture. *)
Written(e, before) == IF before = Torn THEN {rules[e]} ELSE {rules[e], Torn}

(* The whole is written, or a part; or closing the file fails behind the whole. *)
WriteRules(e) ==
  /\ phase[e] = "write"
  /\ \E fails \in BOOLEAN :
       LET Content(before) == IF fails THEN Written(e, before) \cup {Torn} ELSE Written(e, before) IN
       /\ CASE writesTo[e] = "tmp" -> tmp' \in Content(tmp) /\ UNCHANGED file
            [] writesTo[e] = "file" -> file' \in Content(file) /\ UNCHANGED tmp
            [] writesTo[e] = "none" -> UNCHANGED <<file, tmp>>
       /\ IF fails
          THEN SaveFails(e)
          ELSE phase' = [phase EXCEPT ![e] = "rename"] /\ UNCHANGED <<writesTo, unsaved, saveFailed>>
  /\ UNCHANGED <<rules, asking, ran, meant, disturbed>>

(* The rename fails when another process has renamed the temporary file, or of
   itself. *)
Rename(e) ==
  /\ phase[e] = "rename"
  /\ \/ /\ tmp # NoFile /\ file' = tmp /\ tmp' = NoFile /\ phase' = [phase EXCEPT ![e] = "on"]
        /\ writesTo' = [o \in Engines |-> IF o # e /\ writesTo[o] = "tmp" THEN "file" ELSE "none"]
        /\ unsaved' = [unsaved EXCEPT ![e] = {}] /\ saveFailed' = saveFailed \ {e}
     \/ SaveFails(e) /\ UNCHANGED <<file, tmp>>
  /\ UNCHANGED <<rules, asking, ran, meant, disturbed>>

(* The user edits the file with one more rule; a torn one is written anew. *)
EditRules(r) ==
  /\ r \notin meant /\ Cardinality(meant) < MaxRules /\ meant' = meant \cup {r}
  /\ file' = (IF file = Torn THEN {} ELSE file) \cup {r}
  /\ disturbed' = (disturbed \/ Alive # {})
  /\ writesTo' = [e \in Engines |-> IF writesTo[e] = "file" THEN "none" ELSE writesTo[e]]
  /\ UNCHANGED <<tmp, phase, rules, asking, ran, unsaved, saveFailed>>

(* The process ends, or is killed, with all it has in memory. *)
Quit(e) ==
  /\ phase[e] \notin {"off", "over"} /\ phase' = [phase EXCEPT ![e] = "over"]
  /\ writesTo' = [writesTo EXCEPT ![e] = "none"]
  /\ asking' = {c \in asking : c[1] # e} /\ ran' = {c \in ran : c[1] # e}
  /\ rules' = [rules EXCEPT ![e] = {}] /\ saveFailed' = saveFailed \ {e}
  /\ meant' = meant \ unsaved[e] /\ unsaved' = [unsaved EXCEPT ![e] = {}]
  /\ UNCHANGED <<file, tmp, disturbed>>

EngineStep(e) ==
  \/ Open(e) \/ Quit(e) \/ Truncate(e) \/ WriteRules(e) \/ Rename(e)
  \/ \E t \in Tools : Call(e, t) \/ Answer(e, t) \/ AnswerAlways(e, t)

PermNext == (\E e \in Engines : EngineStep(e)) \/ \E r \in Rules : EditRules(r)

PermSpec == PermInit /\ [][PermNext]_permVars

-----------------------------------------------------------------------------
PermTypeOK ==
  /\ file \in (SUBSET Rules) \cup {Torn} /\ tmp \in (SUBSET Rules) \cup {Torn, NoFile}
  /\ phase \in [Engines -> {"off", "on", "truncate", "write", "rename", "over"}]
  /\ writesTo \in [Engines -> {"tmp", "file", "none"}]
  /\ rules \in [Engines -> SUBSET Rules]
  /\ asking \subseteq Engines \X Tools /\ ran \subseteq Engines \X Tools
  /\ meant \subseteq Rules /\ disturbed \in BOOLEAN
  /\ unsaved \in [Engines -> SUBSET Rules] /\ saveFailed \subseteq Engines

(* As long as one process runs at a time and can read the file, and nobody edits
   meanwhile, the file is whole at every moment and holds every rule the user
   made except answers that no save has put there: an edited deny rule stays
   through every save, failed save and kill, and so does an answer once it is
   saved.  Only a process whose last save failed has such answers when it is
   not saving.  (They are lost when it ends: nobody is told of a failed save.
   Two processes may undo each other's rules or spoil the file, and one that
   could not read it writes its own list over it.) *)
RulesKept ==
  ~disturbed =>
    /\ file = meant \ UNION {unsaved[e] : e \in Engines}
    /\ \A e \in Alive : phase[e] = "on" /\ unsaved[e] # {} => e \in saveFailed
=============================================================================
