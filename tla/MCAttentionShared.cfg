SPECIFICATION Spec
CONSTANTS
    num_blocks = 3
    block_size_bytes = 32
    Clients <- MCClients
    c1 = c1
    c2 = c2
    n_layers = 1
    n_kv_heads = 2
    head_dim = 1
    KV_BLOCK_SIZE = 2
    block_size = 2
    cpu_blocks = 2
    threads = 3
    MaxTokens = 2
    Mappings <- MCMappings
    Tables <- MCTables
    BLOCK_SIZE = 2
    WARP_SIZE = 2
    NUM_WARPS = 2
    PARTITION_SIZE = 4
    V1Limit = 5
    Contexts <- MCContextsV1
    Scores = {0, 1}
    Bits = 4
    vocab_size = 3
    Logits = {0, 2, 4}
    Temperatures = {0, 1, 2}
    TopKs = {0, 1, 2, 3}
    TopPs <- MCTopPs
INVARIANT SharedInBounds
