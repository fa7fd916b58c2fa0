---------------------------- MODULE MCExplorers ----------------------------
EXTENDS Explorers

MCKinds == {"process", "service", "container", "systeminfo"}
=============================================================================
