---------------------------- MODULE MCRestClient ----------------------------
EXTENDS RestClient

MCEndpoints == {"book", "account_referral", "auth_message", "auth"}

\* A wait of two ticks, a date in the past, no header.
MCRetryHeaders ==
  {[kind |-> "seconds", value |-> 2], [kind |-> "date", value |-> -1],
   [kind |-> "none", value |-> 0]}
=============================================================================
