---------------------------- MODULE MCMailIntake ----------------------------
(* Small instances of MailIntake: a mailbox of each provider. *)
EXTENDS MailIntake

CONSTANTS p1, p2

None == -1
Slots == {p1, p2}
Symmetric == Permutations(Slots)

Scenario(provider, events, maxMail) ==
  [provider |-> provider, events |-> events, maxMail |-> maxMail]

SomeScenarios ==
  {Scenario("imap", {"stop", "fail", "validity"}, 3),
   Scenario("imap", {"stop", "fail", "torn_write", "rewrite"}, 3),
   Scenario("imap", {"fail", "crash", "expunge"}, 3),
   Scenario("gmail", {"push", "recover", "fail", "crash", "torn_write", "expiry"}, 2),
   Scenario("gmail", {"stop", "expiry"}, 2)}
=============================================================================
