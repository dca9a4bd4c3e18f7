---------------------------- MODULE MCIntentGate ----------------------------
EXTENDS IntentGate, FiniteSets

\* Every set of words without a proposal, and every action with its ways to lie.
Plain == [target_path : PathKinds, candidate : {"none", "other", "VAULT", "GOVERNANCE"},
          governed : BOOLEAN, words : SUBSET Words, proposal : {NoProposal}]
Declared == [target_path : PathKinds, candidate : {"none", "VAULT"}, governed : {FALSE},
             words : {{}, {"says_governance"}, {"says_cleanup"}},
             proposal : [action : Actions \union {"invalid"},
                         version : {"supported", "unsupported"},
                         type : {"GOVERNANCE", "VAULT", "TEMP_CACHE", "CODE", "invalid"},
                         path : {"none", "GOVERNANCE", "VAULT", "TEMP_CACHE"},
                         scope : {"valid", "invalid"}, reversible : {"yes", "no", "invalid"}]]
MCCapsules == Plain \union Declared

\* A document to write, and the same to change a governance rule.
Write == [target_path |-> "DOCUMENT", candidate |-> "none", governed |-> FALSE,
          words |-> {}, proposal |-> NoProposal]
MCSubmissions == {Write, [Write EXCEPT !.words = {"governance"}]}

\* A capsule written for the purpose, two with an anchor of their own, and the
\* copy of a file that governance has parked.
MCBrought == {[state |-> "READY", anchor |-> "none", candidate |-> FALSE],
              [state |-> "READY", anchor |-> "valid", candidate |-> FALSE],
              [state |-> "CREATED", anchor |-> "stale", candidate |-> FALSE],
              [state |-> "WAITING_HUMAN", anchor |-> "valid", candidate |-> TRUE]}
=============================================================================
