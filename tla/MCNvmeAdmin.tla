---------------------------- MODULE MCNvmeAdmin ----------------------------
(* A controller with queues of three entries, and drivers that             *)
(*   - create the I/O queue, use it, and create it anew in mid-pass, while *)
(*     they ask for responses;                                             *)
(*   - ask for responses, two at a time, and set up an I/O queue after two *)
(*     passes, where a reset finds the administration queue as it began;   *)
(*   - name queues that they were not granted.                             *)
EXTENDS NvmeAdmin

SetUp == <<"set_features", "create_cq", "create_sq">>
Anew  == <<"delete_sq", "delete_cq", "create_cq", "create_sq">>

MCWorkload == {
  SetUp \o <<"io", "get_log", "io">> \o Anew \o <<"io", "io", "identify", "io", "io">>,
  SetUp \o <<"io", "io", "io", "io">> \o Anew \o <<"io", "io", "io">> \o Anew \o <<"io">>,
  <<"identify", "get_log", "identify", "identify", "get_log", "other">>
     \o SetUp \o <<"io", "get_log", "io", "identify">>,
  <<"create_cq", "create_sq", "delete_sq", "delete_cq">>}
=============================================================================
