-------------------------------- MODULE Link --------------------------------
(***************************************************************************)
(* What a node may expect of its link to a peer, and all that the Raft     *)
(* core needs of it: a frame may be lost, or overtaken by a later one, but *)
(* it arrives at most once and only if it was sent.  The links of Cluster  *)
(* are of this kind (Reorder lets a frame overtake).                       *)
(***************************************************************************)
EXTENDS Integers, Sequences

VARIABLES sent,     \* the number of frames sent; frames are numbered as they are sent
          transit,  \* the frames on their way
          arrived   \* the frames received, in the order of their arrival

linkVars == <<sent, transit, arrived>>

LinkInit == sent = 0 /\ transit = {} /\ arrived = <<>>

LinkSend ==
    /\ sent' = sent + 1
    /\ transit' = transit \cup {sent + 1}
    /\ UNCHANGED arrived

LinkDeliver(f) ==
    /\ f \in transit
    /\ transit' = transit \ {f}
    /\ arrived' = Append(arrived, f)
    /\ UNCHANGED sent

LinkLose ==
    /\ transit' \in SUBSET transit
    /\ UNCHANGED <<sent, arrived>>

LinkNext == LinkSend \/ (\E f \in transit : LinkDeliver(f)) \/ LinkLose

LinkSpec == LinkInit /\ [][LinkNext]_linkVars

=============================================================================
