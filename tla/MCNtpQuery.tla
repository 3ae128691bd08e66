----------------------------- MODULE MCNtpQuery -----------------------------
(* Values for the constants of NtpQuery that a cfg cannot write. *)
EXTENDS NtpQuery

(* No server, one, two, one too many, names and blanks among them. *)
SomeLists == {<<"blank">>, <<"v4">>, <<"v4", "v6">>, <<"v6", "blank", "v4">>,
              <<"name", "v4", "v6", "v4">>}

NoLists == {}
=============================================================================
