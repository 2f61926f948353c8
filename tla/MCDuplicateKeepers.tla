------------------------- MODULE MCDuplicateKeepers -------------------------
(* One page under four addresses: 1, 2 and 3 have the same text, 3 and 4 the  *)
(* same canonical URL; 2 and 4 are similar, and 4 has a connector of its own. *)
EXTENDS DuplicateKeepers, TLC

CONSTANTS hash, url, near, none, x, y, s1, s2, k1, web, wiki

Keys == hash :> [d \in Docs |-> IF d = 4 THEN none ELSE x]
     @@ url  :> [d \in Docs |-> IF d > 2 THEN y ELSE none]
OnePair == {{2, 4}}
OnePage == [d \in Docs |-> x]
Sources == [d \in Docs |-> IF d = 4 THEN wiki ELSE web]
OneSource == [d \in Docs |-> web]
Everything == {Docs}
Overlapping == {Docs, {2, 3}}
=============================================================================
