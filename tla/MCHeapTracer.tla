----------------------------- MODULE MCHeapTracer -----------------------------
EXTENDS HeapTracerProperties
=============================================================================
