--------------------------- MODULE MCHistoryPaging ---------------------------
(* Instances of HistoryPaging. *)
EXTENDS HistoryPaging, TLC

CONSTANTS alice, bob, carol, sam, x, y, z, hall, loft, barn

Peers == {alice, bob, carol}
Rooms == {hall, loft, barn}

\* Ids without '_', and two with one, which begin alike.
Pieces == Peers \cup {sam, x, y, z}
PlainIds == [u \in Peers \cup {sam} |-> <<u>>]
SomeSplit == [PlainIds EXCEPT ![bob] = <<x, y>>, ![carol] = <<x, z>>]

Texts == {m \in MessageType : m.kind = "text"}
File(side, with, kind) == [side |-> side, with |-> with, way |-> "received", kind |-> kind]
TextsAndFiles ==
  Texts \cup {File("single", alice, "named"), File("single", alice, "other"),
              File("muc", hall, "other")}

Sides(sides) == [sides |-> sides, with |-> Anyone]
AnyRequest ==
  {Sides({"single"}), Sides({"muc"}), Sides({"single", "muc"}), Sides({"file"}),
   [sides |-> {"single"}, with |-> alice], [sides |-> {"muc"}, with |-> hall]}
BothSides == {Sides({"single", "muc"})}

Interchangeable == Permutations(Peers) \cup Permutations(Rooms)
InterchangeableOthers == Permutations({bob, carol}) \cup Permutations({loft, barn})
=============================================================================
