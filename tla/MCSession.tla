------------------------------ MODULE MCSession ------------------------------
(* Sessions on small accounts: one entry of every kind.                    *)
EXTENDS Session

Of(shape, zones, data) == [shape |-> shape, zones |-> zones, data |-> data]
MCEntries == {Of("no_dict", 0, "bad"), Of("bad_zone", 0, "bad"), Of("bad", 2, "bad"),
              Of("no_mac", 0, "good"), Of("ok", 0, "good"), Of("ok", 2, "good"),
              Of("ok", 1, "bad")}
==============================================================================
