-------------------------- MODULE MC_UpdateMessage --------------------------
(* Small instances of UpdateMessage for TLC. *)
EXTENDS UpdateMessage

SizeOfLevel  == [l \in {1, 6} |-> IF l = 1 THEN 4 ELSE 6]
WidthOfLevel == [l \in {1, 6} |-> IF l = 1 THEN 3 ELSE 4]

\* Only Tight asks for a level: the others do not read it.
V(e, l, c, p, s) ==
    [encoder |-> e, lastrect |-> l, cache |-> c, cursor |-> p, pointer |-> p, scale |-> s,
     level |-> IF e = "Tight" THEN 1 ELSE DefaultLevel]

AllViewers ==
    {V("Raw", FALSE, TRUE, TRUE, 1), V("CoRRE", FALSE, TRUE, TRUE, 1),
     V("Zlib", FALSE, TRUE, FALSE, 1), V("Zlib", TRUE, TRUE, FALSE, 1),
     V("Tight", FALSE, FALSE, FALSE, 1), V("Tight", TRUE, FALSE, FALSE, 1),
     V("Ultra", TRUE, TRUE, FALSE, 1), V("ZlibHex", FALSE, FALSE, FALSE, 2)}

U(n, cached, changed) == [copied |-> n, cached |-> cached, changed |-> changed]
Whole == Box(0, 0, Width, Height)
Corner == Box(1, 0, Width - 1, Height - 1)
Column == Box(0, 0, 1, Height)
Overlap == Box(1, 0, 1, Height)
Pixel == Box(Width - 1, 0, 1, 1)

SomeUpdates == {NoUpdate, U(0, <<>>, <<Whole>>), U(1, <<Overlap>>, <<Corner>>),
                U(0, <<Pixel, Column>>, <<>>), U(0, <<>>, <<Column, Corner>>)}
=============================================================================
