-------------------------- MODULE MCWebhookEvents --------------------------
(***************************************************************************)
(* Small instances of WebhookEvents for TLC.                               *)
(***************************************************************************)
EXTENDS WebhookEvents, TLC

CONSTANTS e1, e2, s1, s2

Checkout(sub) == [kind |-> "checkout", sub |-> sub, stripe |-> None]
Change(kind, stripe) == [kind |-> kind, sub |-> s1, stripe |-> stripe]
Plain(kind) == [kind |-> kind, sub |-> None, stripe |-> None]

Scenario(first, second, faults, timeouts, passes) ==
  [type |-> [e \in Events |-> IF e = e1 THEN first ELSE second],
   budget |-> [faults |-> faults, timeouts |-> timeouts, passes |-> passes]]

\* A checkout with a second one or with news of the first, and with the cron
\* pass; a credit pack and issues of another provider under two passes.
Mixed ==
  {Scenario(Checkout(s1), second, 1, 1, 0) :
     second \in {Checkout(s2), Change("deleted", None), Change("unpaid", None),
                Change("updated", "active"), Change("updated", "canceled")}}
  \cup {Scenario(Checkout(s1), Plain("credits"), 1, 1, 1),
        Scenario(Plain("credits"), Plain("issue"), 1, 0, 2),
        Scenario(Plain("issue"), Plain("issue"), 1, 0, 2),
        Scenario(Plain("issue"), Plain("issue"), 0, 1, 1)}

\* A credit pack whose grant fails once, and one run of the pass.
OnePurchase == {Scenario(Plain("credits"), None, 1, 0, 1)}
=============================================================================
