-------------------------- MODULE MCFilterProtocol --------------------------
EXTENDS FilterProtocol

=============================================================================
