-------------------------- MODULE IntentGateProofs --------------------------
(* Theorems about IntentPolicy's rules, for every set of capsules, and about *)
(* IntentGate, for every set of submissions and every bound.                 *)
EXTENDS IntentGate, TLAPS

-----------------------------------------------------------------------------
(* The rules *)

\* The capsule's own path, when it matches a pattern, is the asset.
LEMMA OwnPathDecides ==
  ASSUME NEW c, NEW declared, c.target_path \notin {"other", "none"}
  PROVE  Classify(declared, c) = c.target_path
BY DEF Classify, FirstPath

\* An automatic verdict rests on a routine action, or on the reversible
\* deletion of a temporary file that no one calls the vault's.
LEMMA AutomaticIsHarmless ==
  ASSUME NEW c, Effective(c).gate = "AUTO_ALLOW"
  PROVE  LET p == ProposalOf(c)
             real == Classify(p.path, c)
             action == JudgedAction(p, real)
         IN \/ action \in Routine
            \/ /\ action = "DELETE_ARTIFACT" /\ p.reversible = "yes"
               /\ JudgedType(p, real) = "TEMP_CACHE" /\ p.type # "VAULT"
<1> DEFINE p == ProposalOf(c)
           real == Classify(p.path, c)
           action == JudgedAction(p, real)
           judged == JudgedType(p, real)
           vault == action = "DELETE_ARTIFACT" /\ "VAULT" \in {judged, p.type}
           reversible == p.reversible = "yes" /\ real \notin Protected /\ ~vault
           type == IF vault THEN "VAULT" ELSE judged
           harmless == \/ action \in Routine
                       \/ action = "DELETE_ARTIFACT" /\ type = "TEMP_CACHE" /\ reversible
<1>1. harmless
  BY DEF Effective
<1>2. CASE action \in Routine
  BY <1>2
<1>3. CASE action = "DELETE_ARTIFACT" /\ type = "TEMP_CACHE" /\ reversible
  BY <1>3
<1> QED BY <1>1, <1>2, <1>3

\* Governance and configuration files are never touched without a human.
THEOREM ProtectedAssetsWaitHolds == ProtectedAssetsWait
<1> SUFFICES ASSUME NEW c \in Capsules, c.target_path \in Protected, Automatic(c)
             PROVE  FALSE
  BY DEF ProtectedAssetsWait
<1> DEFINE p == ProposalOf(c)
<1>1. c.target_path \notin {"other", "none"}
  BY DEF Protected
<1>2. Classify(p.path, c) \in Protected
  BY <1>1, OwnPathDecides
<1>3. JudgedAction(p, Classify(p.path, c)) \in {"MODIFY_GOVERNANCE", "MODIFY_SYSTEM_CONFIG"}
  BY <1>2 DEF JudgedAction, Protected
<1> QED BY <1>3, AutomaticIsHarmless DEF Automatic, Routine

\* The words that ask for a human do so for every text and every asset.
THEOREM DangerousWordsWaitHolds == DangerousWordsWait
<1> SUFFICES ASSUME NEW c \in Capsules, c.proposal = NoProposal, Automatic(c),
                    \/ c.words \intersect {"governance", "config", "direction",
                                           "destructive"} # {}
                    \/ "deploy" \in c.words /\ "cleanup" \notin c.words
             PROVE  FALSE
  BY DEF DangerousWordsWait
<1> DEFINE p == Derived(c)
           action == JudgedAction(p, Classify(p.path, c))
<1>1. ProposalOf(c) = p
  BY DEF ProposalOf
<1>2. \/ p.action \in {"MODIFY_GOVERNANCE", "MODIFY_SYSTEM_CONFIG",
                       "MODIFY_KNOWLEDGE_STRUCTURE", "DEPLOY_EXTERNAL"}
      \/ p.action = "DELETE_ARTIFACT" /\ p.reversible = "no"
  BY DEF Derived, Deletion, Proposed
<1>3. action \in {p.action, "MODIFY_GOVERNANCE", "MODIFY_SYSTEM_CONFIG"}
  BY DEF JudgedAction
<1>4. \/ action \in Routine
      \/ action = "DELETE_ARTIFACT" /\ p.reversible = "yes"
  BY <1>1, AutomaticIsHarmless DEF Automatic
<1> QED BY <1>2, <1>3, <1>4 DEF Routine

\* Telling the truth about the asset instead of a lie changes neither the action
\* nor the asset a proposal is judged by, and can only take the vault out of it.
THEOREM LiesDoNotHelpHolds == LiesDoNotHelp
<1> SUFFICES ASSUME NEW c \in Capsules, c.proposal # NoProposal,
                    c.target_path \notin {"other", "none"}, Automatic(c)
             PROVE  Automatic([c EXCEPT !.proposal.type = c.target_path,
                                        !.proposal.path = c.target_path])
  BY DEF LiesDoNotHelp
<1> DEFINE p == c.proposal
           real == c.target_path
           q == [p EXCEPT !.type = real, !.path = real]
           h == [c EXCEPT !.proposal.type = real, !.proposal.path = real]
<1>1. c \in Capsule /\ p \in Proposal /\ real \in AssetTypes
  BY CapsulesAssumption DEF Capsule, PathKinds
<1>2. h.proposal = q /\ h.target_path = real
  BY <1>1 DEF Capsule
<1>3. /\ q.action = p.action /\ q.version = p.version /\ q.scope = p.scope
      /\ q.reversible = p.reversible /\ q.type = real /\ q # NoProposal
  BY <1>1 DEF Proposal, NoProposal, Actions, Routine
<1>4. ProposalOf(c) = p /\ ProposalOf(h) = q
  BY <1>2, <1>3 DEF ProposalOf
<1>5. \A declared : Classify(declared, c) = real /\ Classify(declared, h) = real
  BY <1>2, OwnPathDecides
<1> DEFINE action == JudgedAction(p, real)
<1>6. JudgedAction(q, real) = action
  BY <1>3 DEF JudgedAction
<1>7. real # "invalid"
  BY <1>1 DEF AssetTypes, Protected
<1>8. /\ p.version = "supported" /\ "invalid" \notin {p.type, p.scope, p.reversible}
      /\ \/ action \in Routine
         \/ /\ action = "DELETE_ARTIFACT" /\ p.reversible = "yes"
            /\ real = "TEMP_CACHE" /\ p.type # "VAULT"
  <2>1. p.version = "supported" /\ "invalid" \notin {p.type, p.scope, p.reversible}
    BY <1>4, <1>5 DEF Automatic, Effective
  <2>2. JudgedType(p, real) = real
    BY <2>1 DEF JudgedType
  <2> QED
    BY <1>4, <1>5, <2>1, <2>2, AutomaticIsHarmless DEF Automatic
<1>9. JudgedType(q, real) = real
  BY <1>3, <1>7 DEF JudgedType
<1>10. Effective(h).gate = "AUTO_ALLOW"
  <2> HIDE DEF q, h, p, real, action
  <2>1. Classify(q.path, h) = real
    BY <1>5
  <2>2. CASE action \in Routine
    BY <1>3, <1>4, <1>6, <1>7, <1>8, <1>9, <2>1, <2>2 DEF Effective
  <2>3. CASE action = "DELETE_ARTIFACT" /\ p.reversible = "yes" /\ real = "TEMP_CACHE"
    BY <1>3, <1>4, <1>6, <1>7, <1>8, <1>9, <2>1, <2>3 DEF Effective, Protected
  <2> QED BY <1>8, <2>2, <2>3
<1>11. ~Refused(h)
  BY <1>3, <1>4 DEF Automatic, Refused
<1> QED BY <1>10, <1>11 DEF Automatic

\* Both rules, in every state of every behaviour.
THEOREM RiskyCapsulesWaitHolds == Spec => []RiskyCapsulesWait
<1>1. RiskyCapsulesWait
  BY ProtectedAssetsWaitHolds, DangerousWordsWaitHolds DEF RiskyCapsulesWait
<1> QED BY <1>1, PTL

-----------------------------------------------------------------------------
(* The gate *)

\* A task the file of which a chain, the queue or an approval works on exists.
OnRecord ==
  /\ chain # "none" => mem \in Record /\ disk \in Record
  /\ queued \/ approving => disk \in Record

\* While a rejection stands, nobody runs the task and its file says so.
Rejection == history.rejected => chain = "none" /\ disk.state = "CANCELLED"

GateInv == TypeOK /\ OnRecord /\ Rejection

\* The parts of the invariant, one for each kind of state.
FilesOK ==
  /\ disk \in Record \union {Absent} /\ mem \in Record \union {Absent}
  /\ chain \in {"none", "run", "resume", "cli"}
  /\ OnRecord
FlagsOK == queued \in BOOLEAN /\ parked \in BOOLEAN /\ approving \in BOOLEAN
CountsOK == submissions \in 0 .. MaxSubmissions /\ deaths \in 0 .. MaxDeaths
RestOK == FlagsOK /\ CountsOK

LEMMA GateInvParts == GateInv <=> FilesOK /\ RestOK /\ history \in Observed /\ Rejection
BY DEF GateInv, TypeOK, FilesOK, RestOK, FlagsOK, CountsOK

LEMMA AbsentIsNoRecord == Absent \notin Record
BY DEF Absent, Record

LEMMA GateInvInit == Init => GateInv
<1> SUFFICES ASSUME Init PROVE FilesOK /\ RestOK /\ history \in Observed /\ Rejection
  BY GateInvParts
<1>1. FilesOK
  BY DEF Init, FilesOK, OnRecord
<1>2. RestOK
  <2>1. FlagsOK
    BY DEF Init, FlagsOK
  <2>2. CountsOK
    BY BoundsAssumption DEF Init, CountsOK
  <2> QED BY <2>1, <2>2 DEF RestOK
<1>3. history \in Observed /\ Rejection
  BY DEF Init, Observed, Rejection
<1> QED BY <1>1, <1>2, <1>3

\* enqueue leaves a record, and no rejection standing.
LEMMA AdoptGivesRecord ==
  ASSUME FilesOK, history \in Observed, NEW b \in Brought, Adopt(b)
  PROVE  disk' \in Record /\ history' \in Observed /\ ~history'.rejected
<1>1. disk' \in Record
  <2>1. b.state \in States /\ b.anchor \in Anchors /\ b.candidate \in BOOLEAN
    BY SubmissionsAssumption
  <2>2. AnchorOf(b.anchor) \in Anchors /\ "valid" \in Anchors /\ "AUTO_ALLOWED" \in Intents
    BY <2>1 DEF AnchorOf, Anchors, Intents
  <2>3. CASE disk = Absent
    BY <2>1, <2>2, <2>3 DEF Adopt, Record
  <2>4. CASE disk # Absent
    BY <2>2, <2>4 DEF FilesOK, Adopt, Record
  <2> QED BY <2>3, <2>4
<1>2. AtTheGate(disk) \in BOOLEAN
  BY DEF AtTheGate
<1> QED BY <1>1, <1>2 DEF Adopt, Observed

\* So does the gate.
LEMMA ParkGivesRecord ==
  ASSUME history \in Observed, queued \in BOOLEAN, NEW b \in Brought, Park(b)
  PROVE  disk' \in Record /\ history' \in Observed /\ ~history'.rejected
<1>1. disk' \in Record
  <2>1. b.anchor \in Anchors /\ b.candidate \in BOOLEAN
    BY SubmissionsAssumption
  <2> QED BY <2>1 DEF Park, Record, States, Terminal, Intents
<1> QED BY <1>1 DEF Park, Observed

\* A dispatch leaves records, and a cancelled task alone.
LEMMA DispatchGivesRecord ==
  ASSUME NEW who, NEW file \in Record, mem \in Record \union {Absent},
         disk \in Record, chain = "none", Dispatch(who, file)
  PROVE  /\ disk' \in Record /\ mem' \in Record \union {Absent}
         /\ \/ chain' = "none"
            \/ chain' = who /\ mem' \in Record
         /\ file.state = "CANCELLED" => UNCHANGED <<disk, chain>>
<1>1. CASE file.state = "CANCELLED"
  BY <1>1 DEF Dispatch, fileVars
<1>2. CASE file.state # "CANCELLED" /\ file.anchor # "valid"
  BY <1>2 DEF Dispatch, Record, States, Terminal,
       Intents, Anchors, AnchorOf
<1>3. CASE file.state # "CANCELLED" /\ file.anchor = "valid"
  BY <1>3 DEF Dispatch, Record, States, Terminal,
       Intents, Anchors, AnchorOf
<1> QED BY <1>1, <1>2, <1>3

LEMMA GateInvStep == GateInv /\ [Next]_vars => GateInv'
<1> SUFFICES ASSUME FilesOK, RestOK, history \in Observed, Rejection, [Next]_vars
             PROVE  FilesOK' /\ RestOK' /\ history' \in Observed /\ Rejection'
  BY GateInvParts DEF GateInv, TypeOK, FilesOK, RestOK, FlagsOK, CountsOK
<1> USE BoundsAssumption, AbsentIsNoRecord
<1>0. ASSUME NEW b \in Brought, Park(b) \/ Adopt(b)
      PROVE  disk' \in Record /\ history' \in Observed /\ ~history'.rejected
  <2>1. queued \in BOOLEAN
    BY DEF RestOK, FlagsOK
  <2> QED BY <1>0, <2>1, AdoptGivesRecord, ParkGivesRecord
<1>1. ASSUME NEW c \in Submissions, NEW b \in Brought, Submit(c, b) 
        PROVE  FilesOK' /\ RestOK' /\ history' \in Observed /\ Rejection'
  <2>1. FilesOK'
    BY <1>0, <1>1 DEF Submit, FilesOK, OnRecord
  <2>2. RestOK'
    <3>1. FlagsOK'
      BY <1>1, Zenon DEF Submit, RestOK, FlagsOK
    <3>2. CountsOK'
      BY <1>1 DEF Submit, RestOK, CountsOK
    <3> QED BY <3>1, <3>2 DEF RestOK
  <2>3. history' \in Observed /\ Rejection'
    BY <1>0, <1>1 DEF Submit, Rejection
  <2> QED BY <2>1, <2>2, <2>3
<1>2. ASSUME NEW c \in Submissions, NEW b \in Brought, CliSubmit(c, b) 
        PROVE  FilesOK' /\ RestOK' /\ history' \in Observed /\ Rejection'
  <2>1. FilesOK'
    BY <1>0, <1>2 DEF CliSubmit, gatewayVars, FilesOK, OnRecord
  <2>2. RestOK'
    BY <1>2 DEF CliSubmit, gatewayVars, RestOK, FlagsOK, CountsOK
  <2>3. history' \in Observed /\ Rejection'
    BY <1>0, <1>2 DEF CliSubmit, Rejection
  <2> QED BY <2>1, <2>2, <2>3
<1>3. CASE Approve
  <2>1. FilesOK'
    BY <1>3 DEF Approve, Approvable, ApproveIntent, FilesOK, OnRecord, Record, States, Terminal, Intents
  <2>2. RestOK'
    BY <1>3 DEF Approve, bounds, RestOK, FlagsOK, CountsOK
  <2>3. history' \in Observed /\ Rejection'
    BY <1>3 DEF Approve, Approvable, Terminal, Observed, Rejection
  <2> QED BY <2>1, <2>2, <2>3
<1>4. CASE EnqueueApproved
  <2>1. FilesOK'
    BY <1>4 DEF EnqueueApproved, FilesOK, OnRecord, Record, States, Terminal,
       Intents, Anchors, AnchorOf
  <2>2. RestOK'
    BY <1>4 DEF EnqueueApproved, bounds, RestOK, FlagsOK, CountsOK
  <2>3. history' \in Observed /\ Rejection'
    BY <1>4 DEF EnqueueApproved, AtTheGate, FilesOK, OnRecord, Observed, Rejection, Record, States, Terminal,
       Intents, Anchors, AnchorOf
  <2> QED BY <2>1, <2>2, <2>3
<1>5. CASE CliApprove
  <2>1. FilesOK'
    <3>1. AnchorOf(disk.anchor) \in Anchors
      BY <1>5 DEF CliApprove, Approvable, FilesOK, Record, Anchors, AnchorOf
    <3> QED
      BY <1>5, <3>1
      DEF CliApprove, Approvable, gatewayVars, FilesOK, OnRecord, Record, States, Terminal, Intents
  <2>2. RestOK'
    BY <1>5 DEF CliApprove, gatewayVars, bounds, RestOK, FlagsOK, CountsOK
  <2>3. history' \in Observed /\ Rejection'
    BY <1>5 DEF CliApprove, Approvable, Terminal, Observed, Rejection
  <2> QED BY <2>1, <2>2, <2>3
<1>6. CASE Reject
  <2>1. FilesOK'
    BY <1>6 DEF Reject, gatewayVars, FilesOK, OnRecord, Record, States, Terminal, Intents
  <2>2. RestOK'
    BY <1>6 DEF Reject, gatewayVars, bounds, RestOK, FlagsOK, CountsOK
  <2>3. history' \in Observed /\ Rejection'
    BY <1>6 DEF Reject, FilesOK, Observed, Rejection, Record, States, Terminal,
       Intents, Anchors, AnchorOf
  <2> QED BY <2>1, <2>2, <2>3
<1>7. CASE Start
  <2>1. FilesOK'
    BY <1>7, DispatchGivesRecord DEF Start, fileVars, FilesOK, OnRecord, Record, States, Terminal,
       Intents, Anchors, AnchorOf
  <2>2. RestOK'
    BY <1>7 DEF Start, bounds, RestOK, FlagsOK, CountsOK
  <2>3. history' \in Observed /\ Rejection'
    BY <1>7, DispatchGivesRecord DEF Start, fileVars, FilesOK, OnRecord, Observed, Rejection
  <2> QED BY <2>1, <2>2, <2>3
<1>8. CASE CliRun
  <2> DEFINE new == [state |-> "CREATED", intent |-> "none", anchor |-> "valid",
                     candidate |-> FALSE]
  <2>4. new \in Record
    BY DEF Record, States, Intents, Anchors
  <2>1. FilesOK'
    <3>1. CASE chain # "none"
      BY <1>8, <2>4, <3>1 DEF CliRun, gatewayVars, FilesOK, OnRecord
    <3>2. CASE chain = "none"
      <4>1. Dispatch("cli", new)
        BY <1>8, <3>2 DEF CliRun
      <4>2. mem' \in Record /\ disk' = mem' /\ chain' = "cli"
        BY <4>1 DEF Dispatch, Record, States, Terminal,
       Intents, Anchors, AnchorOf
      <4> QED BY <1>8, <4>2 DEF CliRun, gatewayVars, FilesOK, OnRecord
    <3> QED BY <3>1, <3>2
  <2>2. RestOK'
    BY <1>8 DEF CliRun, gatewayVars, RestOK, FlagsOK, CountsOK
  <2>3. history' \in Observed /\ Rejection'
    BY <1>8 DEF CliRun, Observed, Rejection
  <2> QED BY <2>1, <2>2, <2>3
<1>9. ASSUME NEW who \in {"resume", "cli"}, Resume(who) 
        PROVE  FilesOK' /\ RestOK' /\ history' \in Observed /\ Rejection'
  <2>1. FilesOK'
    BY <1>9 DEF Resume, gatewayVars, FilesOK, OnRecord, Record, States, Terminal,
       Intents, Anchors, AnchorOf
  <2>2. RestOK'
    BY <1>9 DEF Resume, gatewayVars, bounds, RestOK, FlagsOK, CountsOK
  <2>3. history' \in Observed /\ Rejection'
    BY <1>9 DEF Resume, AtTheGate, Observed, Rejection, FilesOK, Record
  <2> QED BY <2>1, <2>2, <2>3
<1>10. CASE Save
  <2>1. FilesOK'
    BY <1>10 DEF Save, gatewayVars, FilesOK, OnRecord
  <2>2. RestOK'
    BY <1>10 DEF Save, gatewayVars, bounds, RestOK, FlagsOK, CountsOK
  <2>3. history' \in Observed /\ Rejection'
    BY <1>10 DEF Save, Rejection
  <2> QED BY <2>1, <2>2, <2>3
<1>11. CASE End
  <2>1. FilesOK'
    <3>1. /\ mem \in Record /\ disk \in Record
          /\ mem' = Absent /\ chain' = "none" /\ UNCHANGED <<queued, approving>>
      BY <1>11 DEF End, EndWith, FilesOK, OnRecord
    <3>2. CASE \E state \in Terminal \union {"WAITING_HUMAN"}, candidate \in BOOLEAN :
                 disk' = [mem EXCEPT !.state = state, !.candidate = candidate]
      <4>1. disk' \in Record
        BY <3>1, <3>2 DEF Record, States, Terminal,
       Intents, Anchors, AnchorOf
      <4> QED BY <3>1, <4>1 DEF FilesOK, OnRecord
    <3>3. CASE disk' = IF disk.state \in Terminal THEN disk
                                                ELSE [disk EXCEPT !.state = "FAILED"]
      <4>1. disk' \in Record
        BY <3>1, <3>3 DEF Record, States, Terminal,
       Intents, Anchors, AnchorOf
      <4> QED BY <3>1, <4>1 DEF FilesOK, OnRecord
    <3>4. mem.candidate \in BOOLEAN
      BY <3>1 DEF Record
    <3> QED BY <1>11, <3>2, <3>3, <3>4 DEF End, EndWith, Terminal
  <2>2. RestOK'
    BY <1>11 DEF End, EndWith, bounds, RestOK, FlagsOK, CountsOK
  <2>3. history' \in Observed /\ Rejection'
    BY <1>11 DEF End, EndWith, Rejection
  <2> QED BY <2>1, <2>2, <2>3
<1>12. CASE GatewayDies
  <2>1. FilesOK'
    BY <1>12 DEF GatewayDies, FilesOK, OnRecord
  <2>2. RestOK'
    <3>1. FlagsOK'
      BY <1>12 DEF GatewayDies, FlagsOK
    <3>2. CountsOK'
      BY <1>12 DEF GatewayDies, RestOK, CountsOK
    <3> QED BY <3>1, <3>2 DEF RestOK
  <2>3. history' \in Observed /\ Rejection'
    BY <1>12 DEF GatewayDies, Observed, Rejection
  <2> QED BY <2>1, <2>2, <2>3
<1>13. CASE CliDies
  <2>1. FilesOK'
    BY <1>13 DEF CliDies, gatewayVars, FilesOK, OnRecord
  <2>2. RestOK'
    BY <1>13 DEF CliDies, gatewayVars, RestOK, FlagsOK, CountsOK
  <2>3. history' \in Observed /\ Rejection'
    BY <1>13 DEF CliDies, Observed, Rejection
  <2> QED BY <2>1, <2>2, <2>3
<1>14. CASE UNCHANGED vars
  <2>1. FilesOK'
    BY <1>14 DEF vars, fileVars, gatewayVars, FilesOK, OnRecord
  <2>2. RestOK'
    BY <1>14 DEF vars, gatewayVars, bounds, RestOK, FlagsOK, CountsOK
  <2>3. history' \in Observed /\ Rejection'
    BY <1>14 DEF vars, fileVars, Rejection
  <2> QED BY <2>1, <2>2, <2>3
<1> QED
  BY <1>1, <1>2, <1>3, <1>4, <1>5, <1>6, <1>7, <1>8, <1>9, <1>10, <1>11, <1>12, <1>13,
     <1>14 DEF Next

LEMMA GateInvHolds == Spec => []GateInv
BY GateInvInit, GateInvStep, PTL DEF Spec

\* The task file is absent or a complete record of one of the known states.
THEOREM GateTypeCorrect == Spec => []TypeOK
<1>1. GateInv => TypeOK
  BY DEF GateInv
<1> QED BY <1>1, GateInvHolds, PTL

\* A rejected task does not run until it is submitted again, whatever the
\* scheduler had queued or was about to queue.
THEOREM RejectedStaysOutHolds == Spec => []RejectedStaysOut
<1>1. GateInv => RejectedStaysOut
  BY DEF GateInv, Rejection, RejectedStaysOut
<1> QED BY <1>1, GateInvHolds, PTL

-----------------------------------------------------------------------------
(* What runs has been cleared *)

\* A chain works on what is cleared, and so is a queued file that can be run.
ChainIsCleared == chain # "none" /\ AtTheGate(mem) => history.adopted
FileIsCleared ==
  queued /\ AtTheGate(disk) /\ disk.anchor = "valid" => history.adopted
Cleared == ChainIsCleared /\ FileIsCleared

LEMMA ClearedInit == Init => Cleared
BY DEF Init, Cleared, ChainIsCleared, FileIsCleared

LEMMA ClearedStep == GateInv /\ Cleared /\ [Next]_vars => Cleared'
<1> SUFFICES ASSUME FilesOK, RestOK, history \in Observed, Cleared, [Next]_vars PROVE Cleared'
  BY GateInvParts
<1> USE AbsentIsNoRecord
        DEF FilesOK, OnRecord, Observed, Cleared, ChainIsCleared, FileIsCleared, AtTheGate
<1>0. queued \in BOOLEAN
  BY DEF RestOK, FlagsOK
<1>1. ASSUME NEW b \in Brought, Park(b), UNCHANGED <<mem, chain, queued>> PROVE Cleared'
  BY <1>0, <1>1 DEF Park
<1>2. ASSUME NEW b \in Brought, Adopt(b), UNCHANGED <<mem, chain>> PROVE Cleared'
  BY <1>2 DEF Adopt, Record
<1>3. ASSUME NEW c \in Submissions, NEW b \in Brought, Submit(c, b) PROVE Cleared'
  BY <1>1, <1>2, <1>3 DEF Submit
<1>4. ASSUME NEW c \in Submissions, NEW b \in Brought, CliSubmit(c, b) PROVE Cleared'
  BY <1>1, <1>2, <1>4 DEF CliSubmit, gatewayVars
<1>5. CASE Approve
  BY <1>5 DEF Approve, ApproveIntent, Approvable, Record
<1>6. CASE EnqueueApproved
  BY <1>6 DEF EnqueueApproved, Record
<1>7. CASE CliApprove
  BY <1>7 DEF CliApprove, Approvable, Record
<1>8. CASE Reject
  BY <1>8 DEF Reject, Record
<1>9. CASE Start
  BY <1>9 DEF Start, Dispatch, fileVars, Record
<1>10. CASE CliRun
  BY <1>10 DEF CliRun, Dispatch, Record
<1>11. ASSUME NEW who \in {"resume", "cli"}, Resume(who) PROVE Cleared'
  BY <1>11 DEF Resume, gatewayVars, Record
<1>12. CASE Save
  BY <1>12 DEF Save, gatewayVars, Record
<1>13. CASE End
  BY <1>13 DEF End, EndWith, Record
<1>14. CASE GatewayDies
  BY <1>14 DEF GatewayDies
<1>15. CASE CliDies
  BY <1>15 DEF CliDies, gatewayVars
<1>16. CASE UNCHANGED vars
  BY <1>16 DEF vars, fileVars, gatewayVars
<1> QED
  BY <1>3, <1>4, <1>5, <1>6, <1>7, <1>8, <1>9, <1>10, <1>11, <1>12, <1>13, <1>14, <1>15,
     <1>16 DEF Next

\* No chain works on a definition that waits at the gate, unless another one's
\* submission or approval has queued it, or its capsule brought the anchor or
\* the candidate that let it through.
THEOREM OnlyClearedRunsHolds == Spec => []OnlyClearedRuns
<1>1. Cleared => OnlyClearedRuns
  BY DEF Cleared, ChainIsCleared, OnlyClearedRuns
<1> QED BY <1>1, GateInvHolds, ClearedInit, ClearedStep, PTL DEF Spec

-----------------------------------------------------------------------------
(* What is approved is not lost *)

\* Every step hands an approved task on: the approval to the queue, the queue to
\* a chain, and a chain's end leaves no approval behind.
LEMMA OnItsWayStep == GateInv /\ ApprovedIsOnItsWay /\ [Next]_vars => ApprovedIsOnItsWay'
<1> SUFFICES ASSUME FilesOK, RestOK, history \in Observed, ApprovedIsOnItsWay, [Next]_vars
             PROVE  ApprovedIsOnItsWay'
  BY GateInvParts
<1> USE AbsentIsNoRecord DEF FilesOK, OnRecord, Observed, ApprovedIsOnItsWay
\* A file that is no more approved than before, and nobody lets go of the task.
<1>1. ASSUME disk' = Absent \/ disk'.state # "APPROVED" PROVE ApprovedIsOnItsWay'
  BY <1>1
<1>2. ASSUME NEW b \in Brought, Park(b) PROVE ApprovedIsOnItsWay'
  BY <1>1, <1>2 DEF Park
<1>3. ASSUME NEW c \in Submissions, NEW b \in Brought, Submit(c, b) PROVE ApprovedIsOnItsWay'
  BY <1>2, <1>3 DEF Submit
<1>4. ASSUME NEW c \in Submissions, NEW b \in Brought, CliSubmit(c, b) PROVE ApprovedIsOnItsWay'
  <2>1. CASE Adopt(b)
    <3>1. disk = Absent => disk'.intent # "APPROVED"
      BY <2>1 DEF Adopt
    <3>2. disk # Absent => disk'.state = disk.state /\ disk'.intent = disk.intent
      BY <2>1 DEF Adopt, Record
    <3>3. history'.orphaned = history.orphaned
      BY <2>1 DEF Adopt
    <3> QED BY <1>4, <3>1, <3>2, <3>3 DEF CliSubmit, gatewayVars
  <2> QED BY <1>2, <1>4, <2>1 DEF CliSubmit
<1>5. CASE Approve
  BY <1>5 DEF Approve
<1>6. CASE EnqueueApproved
  BY <1>6 DEF EnqueueApproved, Known
<1>7. CASE CliApprove
  BY <1>7 DEF CliApprove
<1>8. CASE Reject
  <2>1. disk'.state = "CANCELLED"
    BY <1>8 DEF Reject, Record
  <2> QED BY <1>1, <2>1
<1>9. CASE Start
  <2>1. CASE chain = "cli" /\ UNCHANGED <<fileVars, history>>
    BY <2>1 DEF fileVars
  <2>2. CASE chain = "none" /\ Dispatch("run", disk)
    BY <1>1, <1>9, <2>2 DEF Start, Dispatch, fileVars, Record
  <2>3. CASE disk' = [disk EXCEPT !.state = "FAILED"]
    <3>1. disk'.state = "FAILED"
      BY <1>9, <2>3 DEF Start, Record
    <3> QED BY <1>1, <3>1
  <2> QED BY <1>9, <2>1, <2>2, <2>3 DEF Start
<1>10. CASE CliRun
  BY <1>1, <1>10 DEF CliRun, Dispatch
<1>11. ASSUME NEW who \in {"resume", "cli"}, Resume(who) PROVE ApprovedIsOnItsWay'
  BY <1>1, <1>11 DEF Resume, Record
<1>12. CASE Save
  BY <1>12 DEF Save
<1>13. CASE End
  <2>1. disk'.state # "APPROVED"
    BY <1>13 DEF End, EndWith, Record, Terminal
  <2> QED BY <1>1, <2>1
<1>14. CASE GatewayDies \/ CliDies
  BY <1>14 DEF GatewayDies, CliDies
<1>15. CASE UNCHANGED vars
  BY <1>15 DEF vars, fileVars, gatewayVars
<1> QED
  BY <1>3, <1>4, <1>5, <1>6, <1>7, <1>8, <1>9, <1>10, <1>11, <1>12, <1>13, <1>14, <1>15 DEF Next

\* An approved task is held by somebody who will start it or runs it, unless a
\* process is gone since the approval or the id is in the waiting set, which
\* enqueue takes for one it has.
THEOREM ApprovedIsOnItsWayHolds == Spec => []ApprovedIsOnItsWay
<1>1. Init => ApprovedIsOnItsWay
  BY DEF Init, ApprovedIsOnItsWay
<1> QED BY <1>1, GateInvHolds, OnItsWayStep, PTL DEF Spec
=============================================================================
