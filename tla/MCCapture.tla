----------------------------- MODULE MCCapture -----------------------------
(* Small instances of Capture. *)
EXTENDS Capture, TLC

CONSTANTS c1, c2, video, photo, evidence, k1, k2

\* A capture's inventory of a video and a photograph, and one piece of evidence.
MCPurpose == [a \in Assets |-> CASE a = video -> "video" [] a = photo -> "photo"
                                 [] a = evidence -> "completion"]

\* Sessions and requests are interchangeable.
Symmetry == Permutations(Captures) \cup Permutations(Clients)
=============================================================================
