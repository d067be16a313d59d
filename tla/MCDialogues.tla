---------------------------- MODULE MCDialogues ----------------------------
(* Dialogues for TLC: every interactor is used twice. *)
EXTENDS Dialogues

MCState    == Add!States \cup Trust!States \cup Expire!States
MCPosition == {"prompt", "save", "name", "email", "comment", "value", "ultimate",
               "valid", "subkeys"}
MCCommand  == {"adduid", "trust", "expire"}
MCLine     == MCCommand \cup {"<name>", "<email>", "<comment>", "<date>",
                              "1", "2", "3", "4", "5", "quit", "Y"}
MCError    == StatusErrors \cup {NoError, Canceled, "GENERAL", "INV_NAME",
                                 "INV_USER_ID", "INV_TIME", "SYSTEM"}
MCNotices  == {[status |-> s, args |-> "none"] :
                 s \in {"NEED_PASSPHRASE", "MISSING_PASSPHRASE", "ERROR"}}
MCInput    == MCNotices \cup UNION {{a[p] : p \in DOMAIN a} :
                                      a \in {Add!Asks, Trust!Asks, Expire!Asks}}
=============================================================================
