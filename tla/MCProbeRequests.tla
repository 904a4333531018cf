-------------------------- MODULE MCProbeRequests --------------------------
(***************************************************************************)
(* Instances of ProbeRequests for TLC. The second version of the file      *)
(* changes the timeout and the Host header of a module, takes a module     *)
(* away and adds another.                                                  *)
(***************************************************************************)
EXTENDS ProbeRequests

HTTP(t, host) == [prober |-> "http", timeout |-> t, host |-> host]
Other(p, t) == [prober |-> p, timeout |-> t, host |-> Absent]

TwoVersions == <<
  [web |-> HTTP(0, Absent), fixed |-> HTTP(2, "a"), tcp |-> Other("tcp", 1), odd |-> Absent],
  [web |-> HTTP(2, "b"), fixed |-> HTTP(0, "b"), tcp |-> Absent, odd |-> Other("nosuch", 0)] >>

Ask(m, host, header) == [module |-> m, target |-> TRUE, hostname |-> host, header |-> header]

\* Virtual hosts of one module, every kind of timeout, every way to be refused.
Asked == {
  Ask("web", "a", 3), Ask("web", "b", Absent), Ask("fixed", "a", 1),
  Ask("web", Absent, 2), Ask("odd", Absent, 0),
  Ask("tcp", "a", Bad), [Ask("tcp", Absent, 3) EXCEPT !.target = FALSE] }

\* One module for the grpc prober.
GRPC == << [grpc |-> Other("grpc", 1)] >>
AskGRPC == { Ask("grpc", Absent, 3) }
=============================================================================
