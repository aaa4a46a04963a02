----------------------------- MODULE MCExporter -----------------------------
(***************************************************************************)
(* Instances of Exporter for TLC.                                          *)
(***************************************************************************)
EXTENDS Exporter, TLC

Entry(user, pass) == [user |-> user, pass |-> pass]

File(hosts, metrics) == [parses |-> TRUE, sound |-> TRUE, hosts |-> hosts, metrics |-> metrics]

MCFiles ==
  {File("default" :> Entry("u", "p") @@ "h" :> Entry("u", "p"), {"all"}),
   File("h" :> Entry("u", "q") @@ "i" :> Entry("u", "q"), {"events"}),
   File("default" :> Null @@ "h" :> Entry("u", "p"), {"system"}),
   File("h" :> Null, {}),
   File("default" :> Entry("u", ""), {}),
   File(Null, {"system"}),
   [File(Null, {}) EXCEPT !.parses = FALSE],
   [File("h" :> Entry("v", "v"), {}) EXCEPT !.sound = FALSE]}

Silent == [user |-> "", pass |-> "", other |-> FALSE, on |-> {}, off |-> {}]

MCEnvirons ==
  {Silent,
   [Silent EXCEPT !.user = "env", !.pass = "env", !.on = {"all"}],
   [Silent EXCEPT !.other = TRUE, !.off = {"all"}]}
=============================================================================
