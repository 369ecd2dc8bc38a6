\* Two threads, a pool of one: enqueue and dequeue overlap on ret_.
CONSTANTS
  Threads = {t1, t2}
  Objs = {o1, o2, o3}
  Size = 1
  None = None
SPECIFICATION Spec
INVARIANT PooledIsLive
