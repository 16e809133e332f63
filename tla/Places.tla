------------------------------- MODULE Places -------------------------------
(***************************************************************************)
(* The elements of a list at some of its places, in the order of the list: *)
(* what is left when a loop goes along a list and takes elements off it,   *)
(* or what such a loop finds.  And the places that are found when a loop   *)
(* follows links.                                                          *)
(***************************************************************************)
EXTENDS Naturals, Sequences

\* The elements at the places I among the first n, for each n.
Among(s, I) ==
  LET first[n \in 0 .. Len(s)] ==
        IF n = 0 THEN <<>>
        ELSE IF n \in I THEN Append(first[n - 1], s[n])
        ELSE first[n - 1]
  IN  first

AtPlaces(s, I) == Among(s, I)[Len(s)]

\* What is found from first on, when n links are followed; where there is no link, that is the end.
Along(link, first, n) ==
  LET at[k \in 0 .. n] ==
        IF k = 0 THEN first
        ELSE IF at[k - 1] \in DOMAIN link THEN link[at[k - 1]]
        ELSE at[k - 1]
  IN  at

=============================================================================
