------------------------ MODULE MCCapabilityCatalog ------------------------
EXTENDS CapabilityCatalog, TLC

=============================================================================
