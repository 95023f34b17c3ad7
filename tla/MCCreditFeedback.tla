-------------------------- MODULE MCCreditFeedback --------------------------
EXTENDS CreditFeedback
=============================================================================
