------------------------------ MODULE MCTracer ------------------------------
(***************************************************************************)
(* Small instances of Tracer for TLC: two processes, and command lines of  *)
(* up to four options.                                                     *)
(***************************************************************************)
EXTENDS Tracer, TLC

A == "a"
B == "b"

Processes == {<<1, 1>>, <<2, 2>>}
TwoNames  == {<<A>>, <<B>>}

\* The names of the calls 0 .. 3 in the two ABIs.
Tables64 == (0 :> <<A>> @@ 1 :> <<B>> @@ 2 :> NoText @@ 3 :> NoText)
Tables32 == (0 :> NoText @@ 1 :> <<A>> @@ 2 :> <<B>> @@ 3 :> NoText)

Opt(o, t)    == [opt |-> o, text |-> t, num |-> 0, whole |-> FALSE]
OptPid(n, w) == [opt |-> "p", text |-> <<>>, num |-> n, whole |-> w]

\* -p 1 -e a; -p 2 -p 1 -e b -e a; -c a -e b -t 32; -e , a -c b -s; -c a -e a,b; -p 1;
\* refused: an unknown name, no target, two targets, no name, -h.
MCArgvs ==
  {<<OptPid(1, TRUE), Opt("e", <<A>>)>>,
   <<OptPid(2, TRUE), OptPid(1, TRUE), Opt("e", <<B>>), Opt("e", <<A>>)>>,
   <<Opt("c", <<A>>), Opt("e", <<B>>), Opt("t", <<"3", "2">>)>>,
   <<Opt("e", <<Comma, A>>), Opt("c", <<B>>), Opt("s", <<>>)>>,
   <<Opt("c", <<A>>), Opt("e", <<A, Comma, B>>)>>,
   <<OptPid(1, TRUE)>>,
   <<OptPid(1, TRUE), Opt("e", <<A, Comma, A, B>>)>>,
   <<Opt("e", <<A>>)>>,
   <<OptPid(1, TRUE), Opt("c", <<A>>)>>,
   <<OptPid(1, TRUE), Opt("e", <<Comma, Blank>>)>>,
   <<OptPid(0, TRUE), Opt("h", <<>>)>>}

MCConfigs == [filter_type : {FILTER_PID, FILTER_COMM}, target_pid : 0 .. MaxPid,
              target_comm : Comms \cup {None}, syscall_filter_enabled : BOOLEAN,
              print_stack_enabled : BOOLEAN]
=============================================================================
