----------------------------- MODULE MCOwnerAuth -----------------------------
(* Instances of OwnerAuth: a page in each of two browsers, or two pages in *)
(* the browser of the owner.                                               *)
EXTENDS OwnerAuth, TLC

TwoPages == {"page1", "page2"}
Apart == [p \in TwoPages |-> IF p = "page1" THEN "ann" ELSE "bob"]
Together == [p \in TwoPages |-> "ann"]
BothLayouts == {Apart, Together}
RequestsIn == [l \in BothLayouts |-> IF l = Apart THEN 4 ELSE 3]

(* Requests are told apart by nothing but their content. *)
Interchangeable == Permutations(Saves)
=============================================================================
