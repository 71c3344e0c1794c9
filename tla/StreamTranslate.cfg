SPECIFICATION StreamSpec
CONSTANTS
    ToolIdx = {0, 1, 2}
    MaxOpenTools = 2
    MaxToolFrames = 3
    Ingresses = {"anthropic", "openai", "cohere", "bedrock", "gemini", "responses"}
    Egresses = {"anthropic", "openai", "cohere", "bedrock", "gemini", "responses"}
    MaxFrames = 10
CHECK_DEADLOCK FALSE
INVARIANTS BlocksBalanced TerminalLast UsageAgrees FailureSettled
