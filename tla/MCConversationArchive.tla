----------------------- MODULE MCConversationArchive -----------------------
(***************************************************************************)
(* Instances of ConversationArchive for TLC: two processes, for an archive *)
(* that meets another, and a trailing window of one line in transcripts of *)
(* three, so that a rewritten line can lie before the window.              *)
(***************************************************************************)
EXTENDS ConversationArchive, TLC

CONSTANTS p1, p2, c1, c2

TwoProcs == {p1, p2}
Symmetry == Permutations(Procs)
OneConv == {c1}
TwoConvs == {c1, c2}
TwoLines == {"x", "y"}

Everything == DisturbanceKinds
Nothing == {}

(* What the program writes is narrowed one of two ways: it stays in its    *)
(* first conversation, or it writes one line in each.                      *)
VARIABLE scope
MCInit == Init /\ scope \in {"lines", "conversations"}

MCNext ==
  /\ Next /\ UNCHANGED scope
  /\ IF scope = "lines" THEN current' = FirstConv
     ELSE /\ begun' < MaxOps
          /\ \A c \in Convs : file'.live[c] \in {None, <<>>, <<"x">>}

MCVars == <<vars, scope>>

MCFairSpec == MCInit /\ [][MCNext]_MCVars /\ \A p \in Procs : WF_vars(Step(p))
=============================================================================
