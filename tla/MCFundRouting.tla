--------------------------- MODULE MCFundRouting ---------------------------
EXTENDS FundRouting

\* An address waiting in the pool beside a company account that is off; an address
\* nobody knows yet; and a customer's address reached by a payload without a time.
Addresses(customer, company, watched, shape) ==
  [customer |-> customer, company |-> company, watched |-> watched, shape |-> shape]
StartFacts ==
  {Addresses("pool", "disabled", TRUE, "plain"), Addresses("none", "none", FALSE, "plain"),
   Addresses("assigned", "none", TRUE, "untimed")}
=============================================================================
