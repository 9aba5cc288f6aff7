SPECIFICATION Spec
CONSTANTS
    commands = commands
    responses = responses
    client = client
    asker = asker
    server = server
    writer = writer
    Null = Null
    Pool = Pool
    NoList = NoList
    Nodes = {n1, n2, n3, n4}
    Queues = {commands, responses}
    Threads = {client, asker, server, writer}
    From <- FromList
    To <- ToList
CHECK_DEADLOCK FALSE
SYMMETRY Alike
INVARIANTS TypeOK ListsEnd OnePlaceEach
PROPERTY ListsSpec
