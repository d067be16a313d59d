----------------------------- MODULE MCSignKey -----------------------------
(* SignKey for TLC: up to three user IDs, room for two. *)
EXTENDS SignKey

MCState    == 0 .. ERROR
MCPosition == DOMAIN GpgAsks
MCLists    == {<<>>, <<"uid1">>, <<"uid2", "uid1">>, <<"uid1", "uid2", "uid3">>}
MCLine     == {"sign", "Y", "N", "<level>", "quit", "uid1", "uid2", "uid3",
               "<garbage>"}
MCError    == StatusErrors \cup {NoError, Canceled, "GENERAL", "UNUSABLE_PUBKEY"}
MCNotices  == {[status |-> s, args |-> "none"] : s \in {"NEED_PASSPHRASE", "ERROR"}}
MCInput    == MCNotices \cup {GpgAsks[p] : p \in DOMAIN GpgAsks}
=============================================================================
