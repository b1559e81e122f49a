SPECIFICATION LiveSpec
CONSTANTS N = 4 MaxChunks = 8 Preempt = FALSE Aborts = TRUE Errors = TRUE Pauses = TRUE Restarts = TRUE
INVARIANTS CompletedMeansCopied CopiedInOrder AbortStops NeverStranded
PROPERTY Terminates
