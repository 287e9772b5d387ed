----------------------------- MODULE MCDebounce -----------------------------
\* Debounce for TLC: two callers; two goroutine identities, so that a second
\* goroutine could be spawned if the code allowed it.
EXTENDS Debounce
=============================================================================
