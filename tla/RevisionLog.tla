---------------------------- MODULE RevisionLog ----------------------------
(***************************************************************************)
(* What the artifact store promises of one artifact: a log of revisions    *)
(* that only grows at its end, in which no revision repeats the one before *)
(* it, and a label (group and archived) that is set as a whole.            *)
(* ArtifactRevisions implements it.                                        *)
(***************************************************************************)
EXTENDS Naturals, Sequences

CONSTANTS Contents, Labels

VARIABLES
  published,   \* the contents of revisions 0, 1, ...
  label        \* the label, once something is published

Init == published = <<>> /\ label \notin Labels

Register ==
  /\ published = <<>>
  /\ \E c \in Contents : published' = <<c>>
  /\ label' \in Labels

Publish ==
  /\ published # <<>>
  /\ \E c \in Contents \ {published[Len(published)]} :
       published' = Append(published, c)
  /\ UNCHANGED label

Relabel ==
  /\ published # <<>>
  /\ label' \in Labels
  /\ UNCHANGED published

Next == Register \/ Publish \/ Relabel

Spec == Init /\ [][Next]_<<published, label>>
=============================================================================
