SPECIFICATION Spec
CONSTANTS
  a = a
  b = b
  d1 = d1
  d2 = d2
  t1 = t1
  t2 = t2
  Nada = Nada
  Basura = Basura
  Hilos = {t1, t2}
  Datos = {d1, d2}
  Nombre = {a, b}
  Pedidos <- MCPedidosDosHilos
  Promesas = {"montaje", "espacio", "maximo", "nodos", "vacio", "destino"}
  GFILEBYTABLE = 2
  BLKINDIRECT = 2
  PTRBYINDIRECT = 2
  CeldasDeNodo = 1
  size_bitmap = 1
  g_block_count = 10
  MaxCambios = 8
INVARIANTS
  DuenioUnico
