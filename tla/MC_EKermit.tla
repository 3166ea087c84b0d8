----------------------------- MODULE MC_EKermit -----------------------------
(* Instances of EKermit for TLC: files, and the type of each.               *)
EXTENDS EKermit

OneUnit == <<1>>
OneTwo == <<1, 2>>
Two == <<2>>
TwoOne == <<2, 1>>
Three == <<3>>
ThreeOne == <<3, 1>>
OneEmpty == <<0>>

AllBinary == [f \in Files |-> TRUE]
AllText == [f \in Files |-> FALSE]

=============================================================================
