--------------------------- MODULE MCInstallSecret ---------------------------
EXTENDS InstallSecret
=============================================================================
