-------------------------- MODULE MCObjectManager --------------------------
EXTENDS ObjectManager
=============================================================================
