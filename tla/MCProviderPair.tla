--------------------------- MODULE MCProviderPair ---------------------------
(* A connection of ProviderCredentials whose key and address are changed by  *)
(* one request each, at the same time.                                       *)
EXTENDS ProviderCredentials

Pairs == {<<1, 1>>, <<1, 2>>, <<2, 1>>}
Changes == {[Body("create") EXCEPT !.key = 1, !.url = 1], [Body("patch") EXCEPT !.key = 2],
            [Body("patch") EXCEPT !.url = 2]}
=============================================================================
