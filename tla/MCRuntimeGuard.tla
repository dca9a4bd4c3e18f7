--------------------------- MODULE MCRuntimeGuard ---------------------------
\* RuntimeGuard on small instances: which runs there are is given by the cfg.
EXTENDS RuntimeGuard
=============================================================================
