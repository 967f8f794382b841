--------------------------- MODULE MCAuthorBroker ---------------------------
\* AuthorBroker for model checking; its only constant is a number.
EXTENDS AuthorBroker
=============================================================================
