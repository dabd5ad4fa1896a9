-------------------------- MODULE MCPluginSettings --------------------------
(* Instance of PluginSettings: one setting's name begins another's, and    *)
(* the keys of the hash table collide.                                     *)
EXTENDS PluginSettings

CONSTANTS sol, js1, js10

MCExtends == {<<js10, js1>>}
MCKeys == Settings \X {"original", "applied"}

(* In a table of 5 places all keys have one place.  In one of 6 places,    *)
(* and of 8, the keys of one setting have.  In one of 7 places some keys   *)
(* move on by even steps; in larger ones they spread.                      *)
MCHash(key, size, last) ==
  LET s == IF key[1] = sol THEN 0 ELSE IF key[1] = js1 THEN 1 ELSE 2
      form == IF key[2] = "original" THEN 0 ELSE 1 IN
    CASE size = 5 -> 0
      [] size \in {6, 8} -> s
      [] size = 7 -> (last + s) % size
      [] OTHER -> (last + 3 * s + form) % size

=============================================================================
