-------------------------------- MODULE MCFs --------------------------------
(* Fs with two processes that race over two names. *)
EXTENDS Fs

MCCalls ==
  [sys : {"unlink"}, path : {<<"a">>, <<"b">>, <<"a", "b">>}]
  \cup [sys : {"create"}, path : {<<"a", "b">>}]
  \cup [sys : {"open"}, path : {<<"a">>, <<"b">>}, mode : {"O_RDWR"}]
  \cup [sys : {"mkdir"}, path : {<<"a">>}]
  \cup [sys : {"mknod"}, path : {<<"b">>}]
  \cup [sys : {"link"}, path : {<<"b">>}, new : {<<"a", "b">>, <<"a">>}]
  \cup [sys : {"chdir"}, path : {<<"a">>}]
  \cup [sys : {"close"}]
  \cup [sys : {"swapon", "swapoff"}]

MCSwapName == <<"s1", "s2">>
=============================================================================
