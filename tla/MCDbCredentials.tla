-------------------------- MODULE MCDbCredentials --------------------------
EXTENDS DbCredentials

=============================================================================
